---- MODULE Spec2Model ----
(***************************************************************************)
(* Model of the git-diff-commit-generator extension (src/src/extension.ts).*)
(*                                                                         *)
(* The "generateCommitMessage" command handler is modelled as a state      *)
(* machine whose program points are the handler's await points.  Text is   *)
(* modelled as a sequence of tokens: a literal of the source is one token, *)
(* an interpolated value contributes its own tokens.  A file-system path   *)
(* is the sequence of its segments.  A generated commit message is a       *)
(* positive number (its identity); the empty text is 0.                    *)
(*                                                                         *)
(* The settings panel's message handlers and the "setApiKey" command are   *)
(* modelled as one action per handler, or one per await point where a      *)
(* handler waits for the user; each records what it found, what it wrote   *)
(* and what it showed.                                                     *)
(***************************************************************************)
EXTENDS Integers, Sequences, FiniteSets, TLC

\* ------------------------------------------------------------------ bounds
\* Number of command invocations explored from the broad initial states.
MaxRuns == 2
\* Number of command invocations explored from the history initial states;
\* larger than MAX_HISTORY_SIZE + 1 so that an evicted message can return.
HistRuns == 12
\* Longest output of `git diff --cached`, in characters.
MaxDiffLen == 2
\* Latest value of Date.now(); templates made before the session have time 0.
MaxClock == 2
\* Number of settings and template operations explored.
MaxStoreOps == 2

\* --------------------------------------------------------- program constants
MAX_HISTORY_SIZE == 10

\* ------------------------------------------------------------ text helpers
Range(s) == {s[i] : i \in 1..Len(s)}

\* Characters of a git output: "_" is a whitespace character, "d" is not.
Chars == {"_", "d"}
IsSpace(c) == c = "_"

RECURSIVE TrimStart(_)
TrimStart(s) ==
    IF s # <<>> /\ IsSpace(Head(s)) THEN TrimStart(Tail(s)) ELSE s

RECURSIVE TrimEnd(_)
TrimEnd(s) ==
    IF s # <<>> /\ IsSpace(s[Len(s)]) THEN TrimEnd(SubSeq(s, 1, Len(s) - 1)) ELSE s

\* String.prototype.trim
Trim(s) == TrimEnd(TrimStart(s))

\* The texts of at most n characters.
RECURSIVE TextsUpTo(_)
TextsUpTo(n) ==
    IF n = 0 THEN {<<>>}
    ELSE LET shorter == TextsUpTo(n - 1)
         IN  shorter \cup {Append(t, c) : t \in {u \in shorter : Len(u) = n - 1}, c \in Chars}

\* Literal tokens that contain a marker as a substring.
TokensContaining(needle) ==
    CASE needle = "not a git repository" ->
            {"fatal: not a git repository (or any of the parent directories): .git"}
      [] needle = "API key not valid" ->
            {"[400 Bad Request] API key not valid. Please pass a valid API key."}
      [] needle = "quota" ->
            {"[429 Too Many Requests] You exceeded your current quota."}
      [] OTHER -> {}

\* String.prototype.includes on a token text.
Includes(text, needle) ==
    \E i \in 1..Len(text) : text[i] = needle \/ text[i] \in TokensContaining(needle)

\* ------------------------------------------------------------ path helpers
\* Segment names where the first is a proper string prefix of the second.
StrPrefixPairs == {<<"a", "ab">>}

IsSegPrefix(f, p) == Len(f) <= Len(p) /\ SubSeq(p, 1, Len(f)) = f

\* String.prototype.startsWith on two paths: a prefix of characters, which
\* need not end at a segment boundary.
StartsWith(p, f) ==
    \/ IsSegPrefix(f, p)
    \/ /\ f # <<>>
       /\ Len(f) <= Len(p)
       /\ SubSeq(p, 1, Len(f) - 1) = SubSeq(f, 1, Len(f) - 1)
       /\ <<f[Len(f)], p[Len(f)]>> \in StrPrefixPairs

RECURSIVE CommonLen(_, _)
CommonLen(a, b) ==
    IF a # <<>> /\ b # <<>> /\ Head(a) = Head(b)
    THEN 1 + CommonLen(Tail(a), Tail(b)) ELSE 0

\* path.relative(from, to)
Relative(from, to) ==
    LET c == CommonLen(from, to)
    IN  [i \in 1..(Len(from) - c) |-> ".."] \o SubSeq(to, c + 1, Len(to))

\* path.join(folder, sub): "." segments are dropped by normalisation.
Join(folder, sub) == folder \o SelectSeq(sub, LAMBDA x : x # ".")

\* ------------------------------------------------------------------- state
VARIABLES
    \* environment: the workspace, the file system, the vscode.git extension
    workspaceFolders,     \* vscode.workspace.workspaceFolders: Seq of [path, name]
    gitDirs,              \* directories that hold a .git directory
    faults,               \* [probe, find]: the roots where `git rev-parse` and where
                          \* `find` fail whatever the directory holds
    gitApi,               \* [available, repositories: Seq of [path, selected]]
    gitResults,           \* what `git diff --cached` can give in this environment
    config,               \* settings "gitDiffCommitGenerator": [apiKey, selectedModel,
                          \* alwaysUseGeneratedMessage, prompt, savedTemplates,
                          \* defaultTemplateId]
    panel,                \* the webview's script state: what it shows and has selected
    \* process-wide state
    commitMessageHistory, \* the module-level history array
    inputBox,             \* inputBox[i]: inputBox.value of gitApi.repositories[i]
    clipboard,            \* vscode.env.clipboard
    \* the command handler in flight: its position and its locals
    pc,
    apiKey,
    alwaysUseGeneratedMessage,
    repositories,
    selection,            \* the quick pick's result: <<>> (undefined) or <<item>>
    selectedRepo,         \* <<>> (undefined) or <<repo>>
    stagedDiff,
    commitMessage,
    choice,               \* the modal dialog's result, "undefined" when dismissed
    promptTemplate,       \* the template handed to generateCommitMessage
    fullPrompt,           \* the text sent to the service, <<>> before the call
    \* a second invocation of the command handler, suspended at an await or
    \* idle: a record of its position, its locals and its observations
    otherRun,
    \* the _editTemplate call in flight: <<>> or <<[templateId, templates, template]>>
    editing,
    \* observation of the current (or the last) run
    notifications,        \* the messages shown, in order: Seq of [level, text, detail]
    calls,                \* how often each collaborator was invoked
    execResult,           \* what `git diff --cached` gave, <<>> before it returned
    answer,               \* what the service gave, <<>> before it returned
    start,                \* history, input boxes, clipboard and prompt setting when
                          \* the run began
    storeOp,              \* the last settings or template operation: what it found,
                          \* wrote and showed, and whether it threw
    \* bookkeeping
    insertedAt,           \* insertedAt[m]: number of the insertion that put m in the history
    fresh,                \* number of distinct texts the service has returned so far
    lastGenerated,        \* the text of the latest successful generation, NoText before it
    now,                  \* Date.now()
    runs,                 \* invocations so far
    runLimit,             \* invocations to explore
    storeOps,             \* settings and template operations so far
    storeLimit            \* settings and template operations to explore

storeVars == <<config, panel, editing, storeOp, now, storeOps, storeLimit>>
envVars == <<workspaceFolders, gitDirs, faults, gitApi, gitResults, storeVars, otherRun>>
\* envVars without the panel
beyondPanel == <<workspaceFolders, gitDirs, faults, gitApi, gitResults, config, editing,
                 storeOp, now, storeOps, storeLimit, otherRun>>
locals == <<apiKey, alwaysUseGeneratedMessage, repositories, selection, selectedRepo,
            stagedDiff, commitMessage, choice, promptTemplate, fullPrompt>>
runVars == <<commitMessageHistory, inputBox, clipboard, pc, locals, otherRun, lastGenerated,
             notifications, calls,
             execResult, answer, start, insertedAt, fresh, runs, runLimit>>
vars == <<workspaceFolders, gitDirs, faults, gitApi, gitResults, config, panel, editing, storeOp, now, otherRun,
          lastGenerated,
          storeOps, storeLimit, commitMessageHistory, inputBox,
          clipboard, pc, apiKey, alwaysUseGeneratedMessage, repositories, selection,
          selectedRepo, stagedDiff, commitMessage, choice, promptTemplate, fullPrompt,
          notifications, calls, execResult, answer, start,
          insertedAt, fresh, runs, runLimit>>

\* A generated text is a number 1..; 0 is the empty text.
NoText == 0

\* ------------------------------------------------------------- notifications
\* detail: the generated text a modal dialog displays, NoText elsewhere.
Note(level, text) == [level |-> level, text |-> text, detail |-> NoText]

NoteMissingKey ==
    Note("warning", <<"Gemini API key not set. Please set it first via the sidebar or the command palette.">>)
NoteNoRepositories == Note("error", <<"No git repositories found in workspace">>)
NoteNoStagedChanges == Note("information", <<"No staged changes found.">>)
NoteEmptyResponse == Note("warning", <<"Failed to generate commit message (empty response).">>)
NoteApplied == Note("information", <<"Commit message applied to Git input box.">>)
NoteCopiedRepoNotFound ==
    Note("warning", <<"Commit message copied to clipboard (Git repository not found).">>)
NoteCopiedNoGit ==
    Note("warning", <<"Commit message copied to clipboard (Git extension not available).">>)
NoteCopied == Note("information", <<"Commit message copied to clipboard.">>)
\* The modal dialog that offers the generated message.
NoteModal(m) == [level |-> "modal", text |-> <<"Generated commit message:">>, detail |-> m]
\* A catch clause that shows a fixed text without the error's message.
NoteErrorWithoutMessage(message) == Note("error", <<"Error generating commit message: ">>)
\* The catch clause of the command handler.
NoteError(message) == Note("error", <<"Error generating commit message: ">> \o message)

\* ------------------------------------------------------ credential check
\* config.get("apiKey") yields undefined, "" or a key.
ApiKeys == {"undefined", "", "AIza"}

\* A credential check that only notices an absent setting.
HasCredentialUndefinedOnly(key) == key # "undefined"

\* `if (!apiKey)` is not taken.
HasCredential(key) == key \notin {"undefined", ""}

\* --------------------------------------------------------- Repository Locator
Repo(path, name) == [path |-> path, name |-> name]

\* `git rev-parse --git-dir` succeeds in a directory inside a working tree,
\* unless the command itself fails there.
RevParseOk(dir) == dir \notin faults.probe /\ \E g \in gitDirs : IsSegPrefix(g, dir)

\* A set of paths as a sequence, shortest first (the order `find` prints a
\* directory before what is below it).
RECURSIVE SetToSeq(_)
SetToSeq(S) ==
    IF S = {} THEN <<>>
    ELSE LET x == CHOOSE y \in S : \A z \in S : Len(y) <= Len(z)
         IN  <<x>> \o SetToSeq(S \ {x})

\* Output lines of `find . -name .git -type d` run in dir: "./<rel>/.git".
\* When the command fails the callback resolves with '': no line.
FindOutput(dir) ==
    LET below == SetToSeq({g \in gitDirs : IsSegPrefix(dir, g)})
    IN  IF dir \in faults.find THEN <<>>
        ELSE [i \in 1..Len(below) |->
                 <<".">> \o SubSeq(below[i], Len(dir) + 1, Len(below[i])) \o <<".git">>]

\* The least index of a set of indices, 0 when the set is empty: the first
\* match of a search from the left.
FirstIndex(hits) ==
    IF hits = {} THEN 0 ELSE CHOOSE i \in hits : \A j \in hits : i <= j

\* s without its k-th element; s itself when k = 0.
RemoveAt(s, k) ==
    IF k = 0 THEN s ELSE SubSeq(s, 1, k - 1) \o SubSeq(s, k + 1, Len(s))

\* line.replace('/.git', ''): the first segment named .git goes.
StripGit(line) ==
    RemoveAt(line, FirstIndex({i \in 2..Len(line) : line[i] = ".git"}))

\* line.replace('./', ''): the first "." that another segment follows goes.
StripDot(line) ==
    RemoveAt(line, FirstIndex({i \in 1..(Len(line) - 1) : line[i] = "."}))

RECURSIVE AddSubRepos(_, _, _)
AddSubRepos(found, folder, lines) ==
    IF lines = <<>> THEN found
    ELSE LET subPath  == StripDot(StripGit(Head(lines)))
             fullPath == Join(folder.path, subPath)
             next == IF \E i \in 1..Len(found) : found[i].path = fullPath
                     THEN found
                     ELSE Append(found, Repo(fullPath, <<folder.name>> \o subPath))
         IN  AddSubRepos(next, folder, Tail(lines))

\* A Locator that gives up at the first root where a command fails.
RECURSIVE LocateInUntilFailure(_, _)
LocateInUntilFailure(found, folders) ==
    IF folders = <<>> THEN found
    ELSE LET folder == Head(folders)
             withRoot == IF RevParseOk(folder.path)
                         THEN Append(found, Repo(folder.path, <<folder.name>>))
                         ELSE found
         IN  IF folder.path \in faults.probe \cup faults.find THEN found
             ELSE LocateInUntilFailure(
                      AddSubRepos(withRoot, folder, FindOutput(folder.path)), Tail(folders))

RECURSIVE LocateIn(_, _)
LocateIn(found, folders) ==
    IF folders = <<>> THEN found
    ELSE LET folder == Head(folders)
             withRoot == IF RevParseOk(folder.path)
                         THEN Append(found, Repo(folder.path, <<folder.name>>))
                         ELSE found
         IN  LocateIn(AddSubRepos(withRoot, folder, FindOutput(folder.path)), Tail(folders))

GetGitRepositories == LocateIn(<<>>, workspaceFolders)

\* A resolution that takes the repository selected in the SCM view whether
\* or not a workspace folder holds it.
ScmSelectedRepoAnywhere ==
    IF ~(gitApi.available /\ Len(gitApi.repositories) > 0) THEN <<>>
    ELSE LET a == FirstIndex({i \in 1..Len(gitApi.repositories) :
                                 gitApi.repositories[i].selected})
         IN  IF a = 0 THEN <<>>
             ELSE <<Repo(gitApi.repositories[a].path, <<"?">>)>>

\* The repository selected in the SCM view, resolved against the workspace
\* folders: <<repo>>, or <<>> when there is none.
ScmSelectedRepo ==
    IF ~(gitApi.available /\ Len(gitApi.repositories) > 0) THEN <<>>
    ELSE LET a == FirstIndex({i \in 1..Len(gitApi.repositories) :
                                 gitApi.repositories[i].selected})
         IN  IF a = 0 THEN <<>>
             ELSE LET repoPath == gitApi.repositories[a].path
                      w == FirstIndex({i \in 1..Len(workspaceFolders) :
                                          StartsWith(repoPath, workspaceFolders[i].path)})
                  IN  IF w = 0 THEN <<>>
                      ELSE LET folder == workspaceFolders[w]
                           IN  <<Repo(repoPath,
                                      IF repoPath = folder.path THEN <<folder.name>>
                                      ELSE <<folder.name>> \o Relative(folder.path, repoPath))>>

\* -------------------------------------------------------------- Diff Extractor
\* What cp.exec hands the callback of `git diff --cached`.
ExecOk(stdout) == [failed |-> FALSE, stdout |-> stdout, stderr |-> <<>>, message |-> <<>>]
ExecError(stderr, message) ==
    [failed |-> TRUE, stdout |-> <<>>, stderr |-> stderr, message |-> message]

GitDiffResults ==
    {ExecOk(out) : out \in TextsUpTo(MaxDiffLen)}
    \cup {ExecError(<<"fatal: not a git repository (or any of the parent directories): .git">>,
                    <<"Command failed: git diff --cached">>),
          ExecError(<<"fatal: unable to read index">>, <<"Command failed: git diff --cached">>),
          ExecError(<<>>, <<"stdout maxBuffer length exceeded">>)}

Resolved(value) == [ok |-> TRUE, value |-> value, error |-> <<>>]
Rejected(message) == [ok |-> FALSE, value |-> <<>>, error |-> message]

\* An extractor that forgets to trim the output.
GetStagedDiffUntrimmed(res) ==
    IF res.failed
    THEN IF Includes(res.stderr, "not a git repository")
         THEN Rejected(<<"Not a git repository or no HEAD commit yet.">>)
         ELSE Rejected(<<"Failed to get git diff: ">>
                       \o (IF res.stderr # <<>> THEN res.stderr ELSE res.message))
    ELSE Resolved(res.stdout)

\* An extractor that reports the command's error message, never its stderr.
GetStagedDiffMessageOnly(res) ==
    IF res.failed
    THEN IF Includes(res.stderr, "not a git repository")
         THEN Rejected(<<"Not a git repository or no HEAD commit yet.">>)
         ELSE Rejected(<<"Failed to get git diff: ">> \o res.message)
    ELSE LET diff == Trim(res.stdout)
         IN  IF diff = <<>> THEN Resolved(<<>>) ELSE Resolved(diff)

\* getStagedDiff: the promise's settlement for one result of the command.
GetStagedDiff(res) ==
    IF res.failed
    THEN IF Includes(res.stderr, "not a git repository")
         THEN Rejected(<<"Not a git repository or no HEAD commit yet.">>)
         ELSE Rejected(<<"Failed to get git diff: ">>
                       \o (IF res.stderr # <<>> THEN res.stderr ELSE res.message))
    ELSE LET diff == Trim(res.stdout)
         IN  IF diff = <<>> THEN Resolved(<<>>) ELSE Resolved(diff)

\* ----------------------------------------------------------- Message Generator
\* The built-in prompt.
getDefaultPrompt ==
    <<"Read the diffs attached and give me a commit message in this form: [...]">>

\* A handler that prefers the prompt of the default template to the setting.
PromptTemplateOfDefaultTemplate(cfg) ==
    IF cfg.defaultTemplateId \in DOMAIN cfg.savedTemplates
    THEN cfg.savedTemplates[cfg.defaultTemplateId].prompt
    ELSE IF cfg.prompt # <<>> THEN cfg.prompt ELSE getDefaultPrompt

\* config.get("prompt") || getDefaultPrompt()
PromptTemplate(cfg) == IF cfg.prompt # <<>> THEN cfg.prompt ELSE getDefaultPrompt

\* A prompt assembly that trims the template.
FullPromptTrimmed(prompt, diff) ==
    Trim(prompt) \o <<"\n\nHere are the diffs:\n", "<fence>diff\n">> \o diff \o <<"\n<fence>">>

\* The template literal of generateCommitMessage: the template, the
\* separator, and the diff between the opening and the closing fence.
\* <fence> stands for the three backquotes of a code fence.
FullPrompt(prompt, diff) ==
    prompt \o <<"\n\nHere are the diffs:\n", "<fence>diff\n">> \o diff \o <<"\n<fence>">>

\* What model.generateContent does: it throws, or it yields a response.
\* candidates: 0 = undefined, 1 = empty array, 2 = first candidate without
\* content, 3 = first candidate with content.
Thrown(message) ==
    [threw |-> TRUE, message |-> message, candidates |-> 0, blockReason |-> "undefined",
     text |-> NoText]
Response(candidates, blockReason, text) ==
    [threw |-> FALSE, message |-> <<>>, candidates |-> candidates,
     blockReason |-> blockReason, text |-> text]

BlockReasons == {"undefined", "SAFETY", "OTHER"}

\* The service's answers when it has returned n distinct texts so far: texts
\* are numbered in the order of their first appearance, so n + 1 is a new one.
ServiceResults(n) ==
    {Thrown(<<m>>) : m \in {"[400 Bad Request] API key not valid. Please pass a valid API key.",
                            "[429 Too Many Requests] You exceeded your current quota.",
                            "fetch failed"}}
    \cup {Thrown(<<"[429 Too Many Requests] You exceeded your current quota.",
                   "[400 Bad Request] API key not valid. Please pass a valid API key.">>)}
    \cup {Response(c, b, NoText) : c \in 0..2, b \in BlockReasons}
    \cup {Response(3, "undefined", t) : t \in 0..(n + 1)}

\* A blocked-response message that drops the reason.
BlockedMessageNoReason(blockReason) ==
    <<"Generation failed. The response may have been blocked due to safety settings.">>

BlockedMessage(blockReason) ==
    <<"Generation failed. The response may have been blocked due to safety settings (Reason: ",
      IF blockReason # "undefined" THEN blockReason ELSE "No candidate content",
      ").">>

\* A catch clause that looks for the quota marker first.
UserMessageQuotaFirst(message) ==
    IF Includes(message, "quota")
    THEN <<"Gemini API quota exceeded. Please check your usage limits.">>
    ELSE IF Includes(message, "API key not valid")
         THEN <<"Gemini API key is not valid. Please check and set it again.">>
         ELSE <<"Gemini API error: ">> \o message

\* The catch clause of generateCommitMessage: the message of the error it rethrows.
UserMessage(message) ==
    IF Includes(message, "API key not valid")
    THEN <<"Gemini API key is not valid. Please check and set it again.">>
    ELSE IF Includes(message, "quota")
         THEN <<"Gemini API quota exceeded. Please check your usage limits.">>
         ELSE <<"Gemini API error: ">> \o message

\* generateCommitMessage: the promise's settlement for one answer of the service.
GenerateCommitMessage(resp) ==
    IF resp.threw THEN [ok |-> FALSE, value |-> NoText, error |-> UserMessage(resp.message)]
    ELSE IF resp.candidates < 3
         THEN [ok |-> FALSE, value |-> NoText,
               error |-> UserMessage(BlockedMessage(resp.blockReason))]
         ELSE [ok |-> TRUE, value |-> resp.text, error |-> <<>>]

\* ------------------------------------------------------------ History buffer
\* Array.prototype.includes
InHistory(history, m) == \E i \in 1..Len(history) : history[i] = m

\* A history insert whose duplicate test lost its negation.
RecordInverted(history, m) ==
    IF ~InHistory(history, m) THEN history
    ELSE LET unshifted == <<m>> \o history
         IN  IF Len(unshifted) > MAX_HISTORY_SIZE
             THEN SubSeq(unshifted, 1, Len(unshifted) - 1)
             ELSE unshifted

\* A history insert that never evicts.
RecordNoPop(history, m) ==
    IF InHistory(history, m) THEN history ELSE <<m>> \o history

\* A history insert without the duplicate test.
RecordNoDedup(history, m) ==
    LET unshifted == <<m>> \o history
    IN  IF Len(unshifted) > MAX_HISTORY_SIZE
        THEN SubSeq(unshifted, 1, Len(unshifted) - 1)
        ELSE unshifted

\* A history insert that moves a text it already holds to the front.
RecordMoveToFront(history, m) ==
    LET unshifted == <<m>> \o SelectSeq(history, LAMBDA x : x # m)
    IN  IF Len(unshifted) > MAX_HISTORY_SIZE
        THEN SubSeq(unshifted, 1, Len(unshifted) - 1)
        ELSE unshifted

\* A history insert that evicts the entry behind the new one, not the oldest.
RecordDropsSecond(history, m) ==
    IF InHistory(history, m) THEN history
    ELSE IF Len(history) >= MAX_HISTORY_SIZE
         THEN <<m>> \o Tail(history)
         ELSE <<m>> \o history

\* An insertion whose check was made on the history as the run found it when
\* it started, not on the history as it is at the insertion.
RecordCheckedAtStart(history, m) ==
    IF InHistory(start.history, m) THEN history
    ELSE LET unshifted == <<m>> \o history
         IN  IF Len(unshifted) > MAX_HISTORY_SIZE
             THEN SubSeq(unshifted, 1, Len(unshifted) - 1)
             ELSE unshifted

\* The "Add to history" block of the command handler.
Record(history, m) ==
    IF InHistory(history, m) THEN history
    ELSE LET unshifted == <<m>> \o history
         IN  IF Len(unshifted) > MAX_HISTORY_SIZE
             THEN SubSeq(unshifted, 1, Len(unshifted) - 1)
             ELSE unshifted

\* -------------------------------------------------------------- output routing
\* A lookup that accepts a repository that merely contains the resolved path.
FindRepoByPrefix(path) ==
    FirstIndex({i \in 1..Len(gitApi.repositories) :
                   StartsWith(path, gitApi.repositories[i].path)})

\* The repository of the live list whose path is the resolved one: its index, or 0.
FindRepo(path) ==
    FirstIndex({i \in 1..Len(gitApi.repositories) : gitApi.repositories[i].path = path})

\* Apply the message to the repository's input box, or fall back to the
\* clipboard: the new input boxes, the new clipboard and the message shown.
ApplyOrCopy(path, m) ==
    IF gitApi.available /\ Len(gitApi.repositories) > 0
    THEN LET i == FindRepo(path)
         IN  IF i # 0
             THEN [inputBox |-> [inputBox EXCEPT ![i] = m], clipboard |-> clipboard,
                   note |-> NoteApplied]
             ELSE [inputBox |-> inputBox, clipboard |-> m, note |-> NoteCopiedRepoNotFound]
    ELSE [inputBox |-> inputBox, clipboard |-> m, note |-> NoteCopiedNoGit]

\* The choices of the modal dialog; "undefined" is its dismissal.
ModalChoices == {"Use This Message", "Copy to Clipboard", "Cancel", "undefined"}

\* A dialog whose "Copy to Clipboard" button applies the message as well.
RouteChoiceCopyApplies(c, path, m) ==
    IF c \in {"Use This Message", "Copy to Clipboard"}
    THEN <<[ApplyOrCopy(path, m) EXCEPT !.clipboard = m]>>
    ELSE <<>>

\* The outcome of the modal dialog for one choice: <<>> when nothing is done.
RouteChoice(c, path, m) ==
    IF c = "Use This Message" THEN <<ApplyOrCopy(path, m)>>
    ELSE IF c = "Copy to Clipboard"
         THEN <<[inputBox |-> inputBox, clipboard |-> m, note |-> NoteCopied]>>
         ELSE <<>>

\* -------------------------------------------------------- settings and templates
\* The identifiers offered by the model selector; the first is the default.
Models == {"gemini-2.0-flash", "gemini-2.5-pro-preview-05-06"}

\* Template ids: <<>> is the empty id, <<t>> is `template_${Date.now()}` at time t.
NoId == <<>>
TemplateId(t) == <<t>>
AllIds == {TemplateId(t) : t \in 0..MaxClock}

Template(name, prompt) == [name |-> name, prompt |-> prompt, projectPaths |-> <<>>]
NoTemplates == [id \in {} |-> Template("", <<>>)]

\* What the user can type: template names, template prompts, prompt settings.
Names == {"n", "m"}
TemplatePrompts == {<<"q">>, <<"r">>}
PromptTexts == {<<>>, <<"p">>, <<"_", "p">>}

\* templates[id] = template
Put(templates, id, template) ==
    [i \in DOMAIN templates \cup {id} |-> IF i = id THEN template ELSE templates[i]]

\* A lookup that falls back to some template when the id names none.
LookupOrAny(templates, id) ==
    IF id \in DOMAIN templates THEN <<templates[id]>>
    ELSE IF DOMAIN templates # {} THEN <<templates[CHOOSE i \in DOMAIN templates : TRUE]>>
         ELSE <<>>

\* templates[id]: <<template>>, or <<>> for undefined
Lookup(templates, id) == IF id \in DOMAIN templates THEN <<templates[id]>> ELSE <<>>

\* delete templates[id]
Delete(templates, id) == [i \in DOMAIN templates \ {id} |-> templates[i]]

\* The message of the error a rejected config.update carries.
WriteError == <<"Unable to write into user settings.">>

NoteKeySaved == Note("information", <<"Gemini API key saved.">>)
NoteKeyCleared == Note("information", <<"Gemini API key cleared.">>)
NotePromptSaved == Note("information", <<"Prompt template saved.">>)
NoteTemplateNotFound == Note("error", <<"Template not found.">>)
NoteLastCopied == Note("information", <<"Last commit message copied to clipboard.">>)
NoteNoHistory == Note("information", <<"No commit message history available.">>)
NoteFailed(what, message) == Note("error", <<what>> \o message)
NoteTemplate(name, done) ==
    Note("information", <<"Template \"", name, "\" ", done, " successfully.">>)

\* The updateSettings message that _updateWebviewSettings posts.
UpdateSettings(cfg) ==
    [hasApiKey |-> HasCredential(cfg.apiKey),
     prompt |-> PromptTemplate(cfg),
     selectedModel |-> cfg.selectedModel,
     alwaysUseGenerated |-> cfg.alwaysUseGeneratedMessage,
     templates |-> cfg.savedTemplates,
     selectedTemplateId |-> cfg.defaultTemplateId]

\* What the webview's script holds in its variables and controls.
Mirror(shown) ==
    [hasApiKey |-> shown.hasApiKey, prompt |-> shown.prompt,
     selectedModel |-> shown.selectedModel,
     alwaysUseGenerated |-> shown.alwaysUseGenerated,
     templates |-> shown.templates, selectedTemplateId |-> shown.selectedTemplateId]

\* saveState: vscode.setState is handed the script's variables and controls.
SaveState(shown) == [shown EXCEPT !.state = Mirror(shown)]

\* updateTemplateList: the item that gets the class "selected" is the one
\* whose id is the script's selectedTemplateId when the list is built.
Highlighted(templates, selected) ==
    IF selected \in DOMAIN templates THEN selected ELSE NoId

\* The webview's script when it starts with no state kept from before.
InitialPanel ==
    LET blank == [hasApiKey |-> FALSE, prompt |-> <<>>,
                  selectedModel |-> "gemini-2.0-flash", alwaysUseGenerated |-> FALSE,
                  templates |-> NoTemplates, selectedTemplateId |-> NoId]
    IN  [hasApiKey |-> FALSE, prompt |-> <<>>, selectedModel |-> "gemini-2.0-flash",
         alwaysUseGenerated |-> FALSE, templates |-> NoTemplates,
         selectedTemplateId |-> NoId, highlighted |-> NoId, state |-> blank,
         message |-> <<>>, generateStatus |-> ""]

\* The user did something in the panel: its last step was not the handling
\* of a message.
Local(shown) == [shown EXCEPT !.message = <<>>]

\* The webview's handler of updateSettings: the controls take the message's
\* values, the list is built, then selectedTemplateId is assigned and the
\* state is saved.
OnUpdateSettings(shown, message) ==
    SaveState([hasApiKey |-> message.hasApiKey,
               prompt |-> message.prompt,
               selectedModel |-> message.selectedModel,
               alwaysUseGenerated |-> message.alwaysUseGenerated,
               templates |-> message.templates,
               highlighted |-> Highlighted(message.templates, shown.selectedTemplateId),
               selectedTemplateId |-> message.selectedTemplateId,
               state |-> shown.state,
               message |-> <<message>>,
               generateStatus |-> ""])

\* provider.clearGeneratingStatus() and the webview's handler of its message.
ClearGeneratingStatus(shown) == [shown EXCEPT !.generateStatus = ""]

\* The panel after the settings became cfg: onDidChangeConfiguration fires
\* when a setting changed, and its listener posts the settings to the webview.
Listener(shown, cfg) ==
    IF cfg # config THEN OnUpdateSettings(shown, UpdateSettings(cfg)) ELSE shown

\* The panel after a template operation wrote cfg and then called
\* _updateWebviewSettings itself: the listener's message, when the write
\* changed a setting, and then the operation's own.
Posted(shown, cfg) == OnUpdateSettings(Listener(shown, cfg), UpdateSettings(cfg))

\* What an operation leaves for inspection: the templates and the default
\* id it found, the outcome of each write it awaited, the messages it
\* showed, and whether it ended by throwing.
Seen(templates, name, id, writes, notes, threw) ==
    [name |-> name, id |-> id,
     before |-> [savedTemplates |-> templates,
                 defaultTemplateId |-> config.defaultTemplateId],
     writes |-> writes, notes |-> notes, threw |-> threw]

Settings(key, always, prompt, templates, default) ==
    [apiKey |-> key, selectedModel |-> "gemini-2.0-flash",
     alwaysUseGeneratedMessage |-> always, prompt |-> prompt,
     savedTemplates |-> templates, defaultTemplateId |-> default]

\* ------------------------------------------------------------- initial states
Folder(path, name) == [path |-> path, name |-> name]
Live(path, selected) == [path |-> path, selected |-> selected]
Api(repos) == [available |-> TRUE, repositories |-> repos]
NoApi == [available |-> FALSE, repositories |-> <<>>]
NoFaults == [probe |-> {}, find |-> {}]
Env(folders, dirs, api) ==
    [workspaceFolders |-> folders, gitDirs |-> dirs, gitApi |-> api, faults |-> NoFaults]
\* The environment env where the probe fails in the roots of probe and the
\* subtree search fails in the roots of find.
Faulty(env, probe, find) == [env EXCEPT !.faults = [probe |-> probe, find |-> find]]

DirA == <<"a">>
DirAS == <<"a", "s">>
DirAB == <<"ab">>
DirB == <<"b">>
FolderA == Folder(DirA, "a")
FolderB == Folder(DirB, "b")

\* A root with an embedded repository; only the root is open in the SCM view.
EnvEmbedded == Env(<<FolderA>>, {DirA, DirAS}, Api(<<Live(DirA, FALSE)>>))

\* Two roots, each a repository, none selected in the SCM view.
EnvTwo == Env(<<FolderA, FolderB>>, {DirA, DirB},
              Api(<<Live(DirB, FALSE), Live(DirA, FALSE)>>))

\* Two roots that are repositories, the second one inside the first.
EnvNested == Env(<<FolderA, Folder(DirAS, "s")>>, {DirA, DirAS}, Api(<<>>))

Environments ==
    { Env(<<>>, {}, Api(<<>>)),                                   \* no folder is open
      Env(<<FolderA>>, {}, Api(<<>>)),                            \* a folder, no repository
      Env(<<FolderA>>, {DirA}, Api(<<Live(DirA, FALSE)>>)),       \* one repository
      Env(<<FolderA>>, {DirA}, NoApi),                            \* vscode.git is missing
      EnvEmbedded,
      Env(<<FolderA>>, {DirA, DirAS},
          Api(<<Live(DirA, FALSE), Live(DirAS, TRUE)>>)),         \* the embedded one is selected
      EnvTwo,
      Env(<<FolderA>>, {DirA, DirB},
          Api(<<Live(DirB, TRUE), Live(DirA, FALSE)>>)),          \* selected outside the workspace
      Env(<<FolderA>>, {DirA, DirAB},
          Api(<<Live(DirAB, TRUE), Live(DirA, FALSE)>>)),         \* selected beside the root
      Env(<<Folder(DirAS, "s")>>, {DirA}, Api(<<>>)),             \* a root inside a repository
      EnvNested,
      Env(<<Folder(DirAS, "s"), FolderA>>, {DirA, DirAS}, Api(<<>>)), \* the inner root first
      Faulty(Env(<<FolderA>>, {DirAS}, Api(<<>>)), {}, {DirA}),   \* find fails in the root
      Faulty(Env(<<FolderA, FolderB>>, {DirA, DirAS, DirB}, Api(<<>>)),
             {DirA}, {DirA}),                                     \* both fail in one root
      Faulty(Env(<<FolderA, FolderB>>, {DirA, DirAS, DirB}, Api(<<>>)),
             {DirB}, {}) }                                        \* the probe fails in one root

NoCalls == [locator |-> 0, quickPick |-> 0, extractor |-> 0, generator |-> 0, modal |-> 0]

Snapshot(history, boxes, clip, prompt) ==
    [history |-> history, inputBox |-> boxes, clipboard |-> clip, prompt |-> prompt]

\* The history after n distinct texts were generated one after another, the
\* newest first.
HistoryOf(n) == [i \in 1..n |-> n + 1 - i]

\* A handler that is not running.
IdleHandler(boxes, history, prompt) ==
    [pc |-> "idle", apiKey |-> "undefined", alwaysUseGeneratedMessage |-> FALSE,
     repositories |-> <<>>, selection |-> <<>>, selectedRepo |-> <<>>,
     stagedDiff |-> <<>>, commitMessage |-> NoText, choice |-> "undefined",
     promptTemplate |-> <<>>, fullPrompt |-> <<>>, notifications |-> <<>>,
     calls |-> NoCalls, execResult |-> <<>>, answer |-> <<>>,
     start |-> Snapshot(history, boxes, NoText, prompt)]

\* The state when n texts have been generated, none applied or copied.
InitWith(env, results, cfg, limit, opLimit, n) ==
    /\ workspaceFolders = env.workspaceFolders
    /\ gitDirs = env.gitDirs
    /\ faults = env.faults
    /\ gitApi = env.gitApi
    /\ gitResults = results
    /\ config = cfg
    /\ panel = OnUpdateSettings(InitialPanel, UpdateSettings(cfg))
    /\ editing = <<>>
    /\ storeOp = Seen(cfg.savedTemplates, "none", NoId, <<>>, <<>>, FALSE)
    /\ now = 1
    /\ storeOps = 0
    /\ storeLimit = opLimit
    /\ commitMessageHistory = HistoryOf(n)
    /\ inputBox = [i \in 1..Len(env.gitApi.repositories) |-> NoText]
    /\ otherRun = IdleHandler([i \in 1..Len(env.gitApi.repositories) |-> NoText],
                           HistoryOf(n), cfg.prompt)
    /\ clipboard = NoText
    /\ pc = "idle"
    /\ apiKey = "undefined"
    /\ alwaysUseGeneratedMessage = FALSE
    /\ repositories = <<>>
    /\ selection = <<>>
    /\ selectedRepo = <<>>
    /\ stagedDiff = <<>>
    /\ commitMessage = NoText
    /\ choice = "undefined"
    /\ promptTemplate = <<>>
    /\ fullPrompt = <<>>
    /\ notifications = <<>>
    /\ calls = NoCalls
    /\ execResult = <<>>
    /\ answer = <<>>
    /\ start = Snapshot(HistoryOf(n), [i \in 1..Len(env.gitApi.repositories) |-> NoText],
                        NoText, cfg.prompt)
    /\ insertedAt = [m \in 1..n |-> m]
    /\ fresh = n
    /\ lastGenerated = n
    /\ runs = 0
    /\ runLimit = limit

\* The state after construction.
InitFrom(env, results, cfg, limit, opLimit) == InitWith(env, results, cfg, limit, opLimit, 0)

Init ==
    \E env \in Environments, key \in ApiKeys, always \in BOOLEAN :
        InitFrom(env, GitDiffResults, Settings(key, always, <<>>, NoTemplates, NoId), MaxRuns, 0)

\* One run from each of the broad initial states.
InitFair ==
    \E env \in Environments, key \in ApiKeys, always \in BOOLEAN :
        InitFrom(env, GitDiffResults, Settings(key, always, <<>>, NoTemplates, NoId), 1, 0)

InitHistory ==
    \E always \in BOOLEAN :
        InitFrom(EnvEmbedded, {ExecOk(<<"d">>), ExecOk(<<"_">>)},
                 Settings("AIza", always, <<>>, NoTemplates, NoId), HistRuns, 0)

\* One repository, open in the SCM view.
EnvOne == Env(<<FolderA>>, {DirA}, Api(<<Live(DirA, FALSE)>>))

\* A template made before the session.
OldTemplates == Put(NoTemplates, TemplateId(0), Template("n", <<"q">>))

InitStore ==
    \E templates \in {NoTemplates, OldTemplates}, default \in {NoId, TemplateId(0)} :
        /\ default \in DOMAIN templates \cup {NoId}
        /\ InitFrom(EnvOne, {ExecOk(<<"d">>)},
                    Settings("AIza", FALSE, <<>>, templates, default), 0, MaxStoreOps)

InitSettings ==
    \E first \in {<<EnvOne, TRUE>>, <<EnvTwo, FALSE>>}, default \in {NoId, TemplateId(0)} :
        InitFrom(first[1], {ExecOk(<<"_", "d">>)},
                 Settings("AIza", first[2], <<>>, OldTemplates, default), MaxRuns, MaxStoreOps)

\* ------------------------------------------------------------------ actions
Show(note) == notifications' = Append(notifications, note)
Called(who) == calls' = [calls EXCEPT ![who] = @ + 1]
Untouched ==
    UNCHANGED <<commitMessageHistory, inputBox, clipboard, insertedAt, fresh, lastGenerated>>

\* The command is invoked: the settings are read, the credential is checked
\* and the repository selected in the SCM view, if any, is resolved.  When
\* it is invoked by the panel's Generate button (clicked), the panel has
\* written its status first.
InvokeBy(clicked) ==
    /\ pc = "idle"
    /\ runs < runLimit
    /\ runs' = runs + 1
    /\ UNCHANGED runLimit
    /\ apiKey' = config.apiKey
    /\ alwaysUseGeneratedMessage' = config.alwaysUseGeneratedMessage
    /\ repositories' = <<>>
    /\ selection' = <<>>
    /\ stagedDiff' = <<>>
    /\ commitMessage' = NoText
    /\ choice' = "undefined"
    /\ promptTemplate' = PromptTemplate(config)
    /\ fullPrompt' = <<>>
    /\ execResult' = <<>>
    /\ answer' = <<>>
    /\ start' = Snapshot(commitMessageHistory, inputBox, clipboard, config.prompt)
    /\ IF ~HasCredential(config.apiKey)
       THEN /\ notifications' = <<NoteMissingKey>>
            /\ calls' = NoCalls
            /\ selectedRepo' = <<>>
            /\ pc' = "idle"
       ELSE /\ notifications' = <<>>
            /\ selectedRepo' = ScmSelectedRepo
            /\ IF ScmSelectedRepo = <<>>
               THEN calls' = [NoCalls EXCEPT !.locator = 1] /\ pc' = "locating"
               ELSE calls' = [NoCalls EXCEPT !.extractor = 1] /\ pc' = "extracting"
    /\ panel' = IF clicked THEN Local([panel EXCEPT !.generateStatus = "Generating..."])
                ELSE panel
    /\ Untouched
    /\ UNCHANGED beyondPanel

\* The command is invoked from the command palette or the SCM view.
Invoke == InvokeBy(FALSE)

\* The panel's Generate button is clicked; it is disabled while the panel
\* holds that no key is set.
GenerateClick == panel.hasApiKey /\ InvokeBy(TRUE)

\* getGitRepositories returns: none, one, or several to choose from.
LocateReturn ==
    /\ pc = "locating"
    /\ \E found \in {GetGitRepositories} :
          /\ repositories' = found
          /\ IF Len(found) = 0
             THEN Show(NoteNoRepositories) /\ pc' = "idle"
                  /\ UNCHANGED <<selectedRepo, calls>>
             ELSE IF Len(found) > 1
                  THEN Called("quickPick") /\ pc' = "picking"
                       /\ UNCHANGED <<selectedRepo, notifications>>
                  ELSE selectedRepo' = <<found[1]>>
                       /\ Called("extractor") /\ pc' = "extracting"
                       /\ UNCHANGED notifications
    /\ Untouched
    /\ UNCHANGED <<envVars, apiKey, alwaysUseGeneratedMessage, selection, stagedDiff,
                   commitMessage, choice, promptTemplate, fullPrompt, execResult, answer,
                   start, runs, runLimit>>

\* The items offered in the quick pick, one for each repository.
RepoItemsAllFirst(repos) ==
    [i \in 1..Len(repos) |->
        [label |-> repos[i].name, description |-> repos[i].path, repo |-> repos[1]]]

RepoItems(repos) ==
    [i \in 1..Len(repos) |->
        [label |-> repos[i].name, description |-> repos[i].path, repo |-> repos[i]]]

\* A handler that never returns when the user cancels.
PickReturnHangs ==
    /\ pc = "picking"
    /\ \E i \in 0..Len(repositories) :
          IF i = 0
          THEN selection' = <<>> /\ pc' = "cancelled" /\ UNCHANGED <<selectedRepo, calls>>
          ELSE /\ selection' = <<RepoItems(repositories)[i]>>
               /\ selectedRepo' = <<RepoItems(repositories)[i].repo>>
               /\ Called("extractor") /\ pc' = "extracting"
    /\ Untouched
    /\ UNCHANGED <<envVars, apiKey, alwaysUseGeneratedMessage, repositories, stagedDiff,
                   commitMessage, choice, promptTemplate, fullPrompt, notifications,
                   execResult, answer, start, runs, runLimit>>

\* showQuickPick returns: the item the user picked (i), or undefined when the
\* user cancelled (0).
PickReturn ==
    /\ pc = "picking"
    /\ \E i \in 0..Len(repositories) :
          IF i = 0
          THEN selection' = <<>> /\ pc' = "idle" /\ UNCHANGED <<selectedRepo, calls>>
          ELSE /\ selection' = <<RepoItems(repositories)[i]>>
               /\ selectedRepo' = <<RepoItems(repositories)[i].repo>>
               /\ Called("extractor") /\ pc' = "extracting"
    /\ Untouched
    /\ UNCHANGED <<envVars, apiKey, alwaysUseGeneratedMessage, repositories, stagedDiff,
                   commitMessage, choice, promptTemplate, fullPrompt, notifications,
                   execResult, answer, start, runs, runLimit>>

\* getStagedDiff settles.
ExtractReturn ==
    /\ pc = "extracting"
    /\ \E res \in gitResults :
          LET settled == GetStagedDiff(res)
          IN  /\ execResult' = <<res>>
              /\ IF ~settled.ok
                 THEN Show(NoteError(settled.error)) /\ pc' = "idle"
                      /\ panel' = ClearGeneratingStatus(panel)
                      /\ UNCHANGED <<stagedDiff, calls, fullPrompt>>
                 ELSE /\ stagedDiff' = settled.value
                      /\ UNCHANGED panel
                      /\ IF settled.value = <<>>
                         THEN Show(NoteNoStagedChanges) /\ pc' = "idle"
                              /\ UNCHANGED <<calls, fullPrompt>>
                         ELSE Called("generator") /\ pc' = "generating"
                              /\ fullPrompt' = <<FullPrompt(promptTemplate, settled.value)>>
                              /\ UNCHANGED notifications
    /\ Untouched
    /\ UNCHANGED <<beyondPanel, apiKey, alwaysUseGeneratedMessage, repositories, selection,
                   selectedRepo, commitMessage, choice, promptTemplate, answer, start, runs,
                   runLimit>>

\* The number of the next insertion into the history.
NextTick ==
    1 + (IF insertedAt = <<>> THEN 0
         ELSE CHOOSE t \in Range(insertedAt) : \A u \in Range(insertedAt) : u <= t)

\* insertedAt after the service returned text m and the history became h.
Stamp(m, h) ==
    LET tick == IF InHistory(h, m) /\ ~InHistory(commitMessageHistory, m)
                THEN NextTick ELSE 0
    IN  IF m > Len(insertedAt) THEN Append(insertedAt, tick)
        ELSE IF tick > 0 THEN [insertedAt EXCEPT ![m] = tick] ELSE insertedAt

\* generateCommitMessage settles; a text is recorded in the history and then
\* applied at once or offered in the modal dialog.
GenerateReturn ==
    /\ pc = "generating"
    /\ \E resp \in ServiceResults(fresh) :
          LET settled == GenerateCommitMessage(resp)
              m == settled.value
              h == Record(commitMessageHistory, m)
              routed == ApplyOrCopy(selectedRepo[1].path, m)
          IN  /\ answer' = <<resp>>
              /\ panel' = ClearGeneratingStatus(panel)
              /\ IF ~settled.ok
                 THEN /\ Show(NoteError(settled.error)) /\ pc' = "idle"
                      /\ UNCHANGED commitMessage
                      /\ Untouched /\ UNCHANGED calls
                 ELSE /\ commitMessage' = m
                      /\ IF m = NoText
                         THEN /\ Show(NoteEmptyResponse) /\ pc' = "idle"
                              /\ Untouched /\ UNCHANGED calls
                         ELSE /\ commitMessageHistory' = h
                              /\ insertedAt' = Stamp(m, h)
                              /\ fresh' = IF m > fresh THEN m ELSE fresh
                              /\ lastGenerated' = m
                              /\ IF alwaysUseGeneratedMessage
                                 THEN /\ inputBox' = routed.inputBox
                                      /\ clipboard' = routed.clipboard
                                      /\ Show(routed.note)
                                      /\ pc' = "idle"
                                      /\ UNCHANGED calls
                                 ELSE /\ Show(NoteModal(m))
                                      /\ Called("modal")
                                      /\ pc' = "confirming"
                                      /\ UNCHANGED <<inputBox, clipboard>>
    /\ UNCHANGED <<beyondPanel, apiKey, alwaysUseGeneratedMessage, repositories, selection,
                   selectedRepo, stagedDiff, choice, promptTemplate, fullPrompt, execResult,
                   start, runs, runLimit>>

\* The modal dialog returns the user's choice.
ModalReturn ==
    /\ pc = "confirming"
    /\ \E c \in ModalChoices :
          LET routed == RouteChoice(c, selectedRepo[1].path, commitMessage)
          IN  /\ choice' = c
              /\ IF routed = <<>>
                 THEN UNCHANGED <<inputBox, clipboard, notifications>>
                 ELSE /\ inputBox' = routed[1].inputBox
                      /\ clipboard' = routed[1].clipboard
                      /\ Show(routed[1].note)
    /\ pc' = "idle"
    /\ UNCHANGED <<envVars, commitMessageHistory, insertedAt, fresh, lastGenerated, apiKey,
                   alwaysUseGeneratedMessage, repositories, selection, selectedRepo,
                   stagedDiff, commitMessage, promptTemplate, fullPrompt, calls, execResult,
                   answer, start, runs, runLimit>>

\* The event loop resumes the other invocation of the handler: the one that
\* was running is suspended at its await, or has ended.
Switch ==
    /\ pc # "idle" \/ otherRun.pc # "idle"
    /\ otherRun' = [pc |-> pc, apiKey |-> apiKey,
                 alwaysUseGeneratedMessage |-> alwaysUseGeneratedMessage,
                 repositories |-> repositories, selection |-> selection,
                 selectedRepo |-> selectedRepo, stagedDiff |-> stagedDiff,
                 commitMessage |-> commitMessage, choice |-> choice,
                 promptTemplate |-> promptTemplate, fullPrompt |-> fullPrompt,
                 notifications |-> notifications, calls |-> calls,
                 execResult |-> execResult, answer |-> answer, start |-> start]
    /\ pc' = otherRun.pc
    /\ apiKey' = otherRun.apiKey
    /\ alwaysUseGeneratedMessage' = otherRun.alwaysUseGeneratedMessage
    /\ repositories' = otherRun.repositories
    /\ selection' = otherRun.selection
    /\ selectedRepo' = otherRun.selectedRepo
    /\ stagedDiff' = otherRun.stagedDiff
    /\ commitMessage' = otherRun.commitMessage
    /\ choice' = otherRun.choice
    /\ promptTemplate' = otherRun.promptTemplate
    /\ fullPrompt' = otherRun.fullPrompt
    /\ notifications' = otherRun.notifications
    /\ calls' = otherRun.calls
    /\ execResult' = otherRun.execResult
    /\ answer' = otherRun.answer
    /\ start' = otherRun.start
    /\ Untouched
    /\ UNCHANGED <<workspaceFolders, gitDirs, faults, gitApi, gitResults, storeVars, runs,
                   runLimit>>

\* ---------------------------------------------- settings and template actions
\* One more operation has been carried out, and what it leaves for inspection.
OpOn(templates, name, id, writes, notes, threw) ==
    /\ storeOps < storeLimit
    /\ storeOps' = storeOps + 1
    /\ storeOp' = Seen(templates, name, id, writes, notes, threw)
    /\ UNCHANGED storeLimit

Op(name, id, writes, notes, threw) ==
    OpOn(config.savedTemplates, name, id, writes, notes, threw)

\* The "Set API Key" command: the input box returns a value ("undefined"
\* when it was cancelled, "" to clear the key) and the setting is written.
\* The write is awaited outside any try block: when it fails, the handler
\* throws.
SetApiKeyCommand ==
    /\ \E value \in ApiKeys, written \in BOOLEAN :
          IF value = "undefined"
          THEN /\ Op("setApiKey", NoId, <<>>, <<>>, FALSE)
               /\ UNCHANGED <<config, panel>>
          ELSE IF written
               THEN LET cfg == [config EXCEPT !.apiKey = value]
                    IN  /\ config' = cfg
                        /\ panel' = Listener(panel, cfg)
                        /\ Op("setApiKey", NoId, <<TRUE>>,
                                         <<IF value # "" THEN NoteKeySaved
                                           ELSE NoteKeyCleared>>, FALSE)
               ELSE /\ Op("setApiKey", NoId, <<FALSE>>, <<>>, TRUE)
                    /\ UNCHANGED <<config, panel>>
    /\ UNCHANGED <<workspaceFolders, gitDirs, faults, gitApi, gitResults, editing, now, runVars>>

\* The panel's Save button: the text area holds what the user typed, or
\* what it held before; setPrompt carries it and the setting is written.
SetPrompt ==
    /\ \E value \in PromptTexts \cup {panel.prompt}, written \in BOOLEAN :
          LET typed == SaveState(Local([panel EXCEPT !.prompt = value,
                                                     !.generateStatus = ""]))
              cfg == [config EXCEPT !.prompt = value]
          IN  IF written
              THEN /\ config' = cfg
                   /\ panel' = Listener(typed, cfg)
                   /\ Op("setPrompt", NoId, <<TRUE>>, <<NotePromptSaved>>, FALSE)
              ELSE /\ panel' = typed
                   /\ Op("setPrompt", NoId, <<FALSE>>,
                                    <<NoteFailed("Failed to save prompt: ", WriteError)>>,
                                    FALSE)
                   /\ UNCHANGED config
    /\ UNCHANGED <<workspaceFolders, gitDirs, faults, gitApi, gitResults, editing, now, runVars>>

\* The panel's model selector changes: setModel carries the value and the
\* setting is written; success shows nothing.
SetModel ==
    /\ \E value \in Models, written \in BOOLEAN :
          LET chosen == SaveState(Local([panel EXCEPT !.selectedModel = value]))
              cfg == [config EXCEPT !.selectedModel = value]
          IN  IF written
              THEN /\ config' = cfg
                   /\ panel' = Listener(chosen, cfg)
                   /\ Op("setModel", NoId, <<TRUE>>, <<>>, FALSE)
              ELSE /\ panel' = chosen
                   /\ Op("setModel", NoId, <<FALSE>>,
                                    <<NoteFailed("Failed to save model selection: ",
                                                 WriteError)>>, FALSE)
                   /\ UNCHANGED config
    /\ UNCHANGED <<workspaceFolders, gitDirs, faults, gitApi, gitResults, editing, now, runVars>>

\* The panel's check box changes: setAlwaysUseGenerated carries the value
\* and the setting is written; success shows nothing.
SetAlwaysUseGenerated ==
    /\ \E value \in BOOLEAN, written \in BOOLEAN :
          LET checked == SaveState(Local([panel EXCEPT !.alwaysUseGenerated = value]))
              cfg == [config EXCEPT !.alwaysUseGeneratedMessage = value]
          IN  IF written
              THEN /\ config' = cfg
                   /\ panel' = Listener(checked, cfg)
                   /\ Op("setAlwaysUseGenerated", NoId, <<TRUE>>, <<>>, FALSE)
              ELSE /\ panel' = checked
                   /\ Op("setAlwaysUseGenerated", NoId, <<FALSE>>,
                                    <<NoteFailed("Failed to save setting: ", WriteError)>>,
                                    FALSE)
                   /\ UNCHANGED config
    /\ UNCHANGED <<workspaceFolders, gitDirs, faults, gitApi, gitResults, editing, now, runVars>>

\* The user clicks a template of the panel's list: it becomes the selected
\* one and its prompt fills the text area.  Nothing is sent to the extension.
UseTemplate ==
    /\ storeOps < storeLimit
    /\ storeOps' = storeOps + 1
    /\ \E id \in DOMAIN panel.templates :
          panel' = SaveState(Local([panel EXCEPT !.selectedTemplateId = id,
                                                 !.prompt = panel.templates[id].prompt,
                                                 !.highlighted = id]))
    /\ UNCHANGED <<workspaceFolders, gitDirs, faults, gitApi, gitResults, config, editing, storeOp,
                   now, storeLimit, runVars>>

\* The panel's Copy button: copyLastCommitMessage copies the first entry of
\* the history.
CopyLastCommitMessage ==
    /\ IF Len(commitMessageHistory) > 0
       THEN /\ clipboard' = commitMessageHistory[1]
            /\ Op("copyLastCommitMessage", NoId, <<>>, <<NoteLastCopied>>, FALSE)
       ELSE /\ UNCHANGED clipboard
            /\ Op("copyLastCommitMessage", NoId, <<>>, <<NoteNoHistory>>, FALSE)
    /\ UNCHANGED <<workspaceFolders, gitDirs, faults, gitApi, gitResults, config, panel,
                   editing, now, otherRun, commitMessageHistory, inputBox, pc, locals,
                   lastGenerated, notifications, calls, execResult, answer, start,
                   insertedAt, fresh, runs, runLimit>>

\* _createNewTemplate, from the point where both input boxes have returned:
\* "" stands for a cancelled or empty box.  The id is made from the clock:
\* Date.now() is the wall clock in milliseconds, which need not have moved
\* on since it was last read (it can be stepped back), so the reading t can
\* equal the last one.  The handler does not look whether the id is taken.
CreateNewTemplate ==
    /\ \E name \in Names \cup {""}, prompt \in TemplatePrompts \cup {<<>>},
          t \in now..MaxClock, written \in BOOLEAN :
          LET id == TemplateId(t)
              templates == Put(config.savedTemplates, id, Template(name, prompt))
              cfg == [config EXCEPT !.savedTemplates = templates]
          IN  IF name = "" \/ prompt = <<>>
              THEN /\ Op("newTemplate", NoId, <<>>, <<>>, FALSE)
                   /\ UNCHANGED <<config, panel, now>>
              ELSE /\ now' = t
                   /\ IF written
                      THEN /\ config' = cfg
                           /\ panel' = Posted(panel, cfg)
                           /\ Op("newTemplate", id, <<TRUE>>,
                                 <<NoteTemplate(name, "created")>>, FALSE)
                      ELSE /\ Op("newTemplate", id, <<FALSE>>,
                                 <<NoteFailed("Failed to create template: ", WriteError)>>,
                                 FALSE)
                           /\ UNCHANGED <<config, panel>>
    /\ UNCHANGED <<workspaceFolders, gitDirs, faults, gitApi, gitResults, editing, runVars>>

\* _editTemplate is called: it reads the templates and, when it finds the
\* template, opens the first input box.
EditTemplate ==
    /\ editing = <<>>
    /\ \E id \in AllIds :
          IF Lookup(config.savedTemplates, id) = <<>>
          THEN /\ Op("editTemplate", id, <<>>, <<NoteTemplateNotFound>>, FALSE)
               /\ UNCHANGED editing
          ELSE /\ storeOps < storeLimit
               /\ editing' = <<[templateId |-> id, templates |-> config.savedTemplates,
                                template |-> Lookup(config.savedTemplates, id)[1]]>>
               /\ UNCHANGED <<storeOp, storeOps, storeLimit>>
    /\ UNCHANGED <<workspaceFolders, gitDirs, faults, gitApi, gitResults, config, panel, now, runVars>>

\* Both input boxes of _editTemplate have returned ("" stands for a
\* cancelled or empty box): the templates read at the call, with the edited
\* template replaced, are written.
EditTemplateReturn ==
    /\ editing # <<>>
    /\ editing' = <<>>
    /\ \E name \in Names \cup {""}, prompt \in TemplatePrompts \cup {<<>>},
          written \in BOOLEAN :
          LET id == editing[1].templateId
              found == editing[1].templates
              template == editing[1].template
              templates == Put(found, id, [template EXCEPT !.name = name, !.prompt = prompt])
              cfg == [config EXCEPT !.savedTemplates = templates]
          IN  IF name = "" \/ prompt = <<>>
              THEN /\ OpOn(found, "editTemplate", id, <<>>, <<>>, FALSE)
                   /\ UNCHANGED <<config, panel>>
              ELSE IF written
                   THEN /\ config' = cfg
                        /\ panel' = Posted(panel, cfg)
                        /\ OpOn(found, "editTemplate", id, <<TRUE>>,
                                <<NoteTemplate(name, "updated")>>, FALSE)
                   ELSE /\ OpOn(found, "editTemplate", id, <<FALSE>>,
                                <<NoteFailed("Failed to update template: ", WriteError)>>,
                                FALSE)
                        /\ UNCHANGED <<config, panel>>
    /\ UNCHANGED <<workspaceFolders, gitDirs, faults, gitApi, gitResults, now, runVars>>

\* The default id after the template id was deleted.
DefaultAfterDelete(default, id) == IF default = id THEN NoId ELSE default

\* _deleteTemplate: the templates without the deleted one are written and
\* then, when the default id named it, the cleared default id.  A write
\* that fails ends the handler with the error message.
DeleteTemplate ==
    /\ \E id \in AllIds, first \in BOOLEAN, second \in BOOLEAN :
          IF Lookup(config.savedTemplates, id) = <<>>
          THEN /\ Op("deleteTemplate", id, <<>>, <<NoteTemplateNotFound>>, FALSE)
               /\ UNCHANGED <<config, panel>>
          ELSE LET name == Lookup(config.savedTemplates, id)[1].name
                   default == DefaultAfterDelete(config.defaultTemplateId, id)
                   deleted == [config EXCEPT !.savedTemplates = Delete(@, id)]
                   cleared == [deleted EXCEPT !.defaultTemplateId = default]
                   failed == NoteFailed("Failed to delete template: ", WriteError)
               IN  IF ~first
                   THEN /\ Op("deleteTemplate", id, <<FALSE>>, <<failed>>, FALSE)
                        /\ UNCHANGED <<config, panel>>
                   ELSE IF default = config.defaultTemplateId
                        THEN /\ config' = deleted
                             /\ panel' = Posted(panel, deleted)
                             /\ Op("deleteTemplate", id, <<TRUE>>,
                                   <<NoteTemplate(name, "deleted")>>, FALSE)
                        ELSE IF second
                             THEN /\ config' = cleared
                                  /\ panel' = OnUpdateSettings(
                                                  OnUpdateSettings(
                                                      OnUpdateSettings(panel, UpdateSettings(deleted)),
                                                      UpdateSettings(cleared)),
                                                  UpdateSettings(cleared))
                                  /\ Op("deleteTemplate", id, <<TRUE, TRUE>>,
                                        <<NoteTemplate(name, "deleted")>>, FALSE)
                             ELSE /\ config' = deleted
                                  /\ panel' = OnUpdateSettings(panel, UpdateSettings(deleted))
                                  /\ Op("deleteTemplate", id, <<TRUE, FALSE>>, <<failed>>,
                                        FALSE)
    /\ UNCHANGED <<workspaceFolders, gitDirs, faults, gitApi, gitResults, editing, now, runVars>>

\* The steps of the command handler.
Run ==
    \/ Invoke
    \/ LocateReturn
    \/ PickReturn
    \/ ExtractReturn
    \/ GenerateReturn
    \/ ModalReturn

\* Runs from every environment; the settings are those of the initial state.
Spec == Init /\ [][Run]_vars

Next ==
    \/ Run
    \/ SetApiKeyCommand
    \/ SetPrompt
    \/ UseTemplate

\* Runs in one repository, with the settings changing at any time.
SpecSettings == InitSettings /\ [][Next]_vars

\* The settings and template operations of the panel and of the command.
Store ==
    \/ SetApiKeyCommand
    \/ SetPrompt
    \/ SetModel
    \/ SetAlwaysUseGenerated
    \/ CreateNewTemplate
    \/ EditTemplate
    \/ EditTemplateReturn
    \/ DeleteTemplate
    \/ UseTemplate

\* Settings and template operations alone, from a few template mappings.
SpecStore == InitStore /\ [][Store]_vars

\* Many runs in one repository with one staged change, under fixed settings:
\* enough to fill the history and go past it.
\* Every external call and every dialog that a run waits for returns.
\* The handler waits for one call at a time, so one condition covers them.
Return == LocateReturn \/ PickReturn \/ ExtractReturn \/ GenerateReturn \/ ModalReturn

EveryCallReturns == WF_vars(Return)

SpecFair == InitFair /\ [][Run]_vars /\ EveryCallReturns

\* One run, invoked by the command or by the panel's Generate button.
PanelRun == Run \/ GenerateClick

SpecPanelFair == InitFair /\ [][PanelRun]_vars /\ EveryCallReturns

\* Two invocations of the handler, resumed in any order at their awaits, in
\* a session where the history is one text short of full.
InitOverlap ==
    \E first \in {<<EnvOne, TRUE>>, <<EnvTwo, FALSE>>} :
        InitWith(first[1], {ExecOk(<<"d">>)},
                 Settings("AIza", first[2], <<>>, NoTemplates, NoId), MaxRuns, 0,
                 MAX_HISTORY_SIZE - 1)

Overlap == Run \/ Switch

SpecOverlap == InitOverlap /\ [][Overlap]_vars

\* Runs and uses of the Copy button, in a session where 0 or 2 texts were
\* generated before.
InitCopy ==
    \E first \in {<<EnvOne, TRUE>>, <<EnvTwo, FALSE>>}, n \in {0, 2} :
        InitWith(first[1], {ExecOk(<<"d">>)},
                 Settings("AIza", first[2], <<>>, NoTemplates, NoId), MaxRuns, MaxStoreOps, n)

Copying == Run \/ CopyLastCommitMessage

SpecCopy == InitCopy /\ [][Copying]_vars

SpecHistory == InitHistory /\ [][Run]_vars

\* ================================================================ properties
\* The run that is in flight, or the last one that ended, left the history,
\* the input boxes and the clipboard as it found them.
NothingWritten ==
    /\ commitMessageHistory = start.history
    /\ inputBox = start.inputBox
    /\ clipboard = start.clipboard

RunEnded == runs > 0 /\ pc = "idle"

\* C1: a run that starts with the API key unset or empty has ended with the
\* missing-key warning and nothing else: the Locator, the Extractor and the
\* Generator were not invoked, and the history, the clipboard and every
\* input box are as they were when the run started.
C1_MissingCredentialAborts ==
    (runs > 0 /\ apiKey \in {"undefined", ""}) =>
        /\ pc = "idle"
        /\ notifications = <<NoteMissingKey>>
        /\ calls.locator = 0 /\ calls.extractor = 0 /\ calls.generator = 0
        /\ NothingWritten

\* A run aborted on an emptied key after an earlier run had filled the history.
C1_Witness ==
    /\ RunEnded /\ apiKey = ""
    /\ notifications = <<NoteMissingKey>>
    /\ commitMessageHistory # <<>>

\* The output of the staged-diff command holds nothing but whitespace.
WhitespaceOnly(text) == \A i \in 1..Len(text) : text[i] = "_"

\* C2: once the staged-diff command has succeeded with empty or
\* whitespace-only output, the run has ended with the information message
\* "No staged changes found." as its only message, no error; the Generator
\* was not invoked, and history, clipboard and input boxes are unchanged.
C2_EmptyDiffIsNoChanges ==
    (execResult # <<>> /\ ~execResult[1].failed /\ WhitespaceOnly(execResult[1].stdout)) =>
        /\ pc = "idle"
        /\ notifications = <<NoteNoStagedChanges>>
        /\ NoteNoStagedChanges.level = "information"
        /\ calls.extractor = 1 /\ calls.generator = 0
        /\ answer = <<>>
        /\ NothingWritten

\* The command printed whitespace only, after an earlier run filled the history.
C2_Witness ==
    /\ RunEnded
    /\ execResult # <<>> /\ ~execResult[1].failed
    /\ execResult[1].stdout = <<"_", "_">>
    /\ commitMessageHistory # <<>>

\* The service answered without usable candidate content.
NoCandidateContent == answer # <<>> /\ ~answer[1].threw /\ answer[1].candidates < 3

\* C3: once the service has answered without usable candidate content and
\* with block reason R, the run has ended with one error message that
\* carries R ("No candidate content" when the service gave no reason), and
\* the run added nothing to the history.
C3_BlockedCarriesReason ==
    NoCandidateContent =>
        /\ pc = "idle"
        /\ Len(notifications) = 1
        /\ notifications[1].level = "error"
        /\ Includes(notifications[1].text, "Generation failed. The response may have been blocked due to safety settings (Reason: ")
        /\ Includes(notifications[1].text,
                    IF answer[1].blockReason = "undefined" THEN "No candidate content"
                    ELSE answer[1].blockReason)
        /\ commitMessageHistory = start.history

\* A response blocked for SAFETY, after an earlier run filled the history.
C3_Witness ==
    /\ RunEnded /\ NoCandidateContent
    /\ answer[1].blockReason = "SAFETY"
    /\ commitMessageHistory # <<>>

\* The Locator has returned in this run; `repositories` is what it returned.
LocatorReturned == calls.locator = 1 /\ pc # "locating"

\* C4: disambiguation by the number n of repositories the Locator returned.
\* n = 0: the run has ended with an error message.  n = 1: that repository
\* is selected and no selection prompt was shown.  n > 1: one selection
\* prompt was shown; after it the run continues with exactly the repository
\* of the item the user picked, or, when the user cancelled, it has ended
\* with no message at all and neither Extractor nor Generator was invoked.
C4_Disambiguation ==
    LocatorReturned =>
        /\ Len(repositories) = 0 =>
              /\ pc = "idle"
              /\ notifications = <<NoteNoRepositories>>
              /\ NoteNoRepositories.level = "error"
              /\ calls.quickPick = 0 /\ calls.extractor = 0 /\ calls.generator = 0
        /\ Len(repositories) = 1 =>
              /\ calls.quickPick = 0
              /\ selectedRepo = <<repositories[1]>>
              /\ calls.extractor = 1
        /\ Len(repositories) > 1 =>
              /\ calls.quickPick = 1
              /\ pc = "picking" => selectedRepo = <<>> /\ calls.extractor = 0
              /\ (pc # "picking" /\ selection # <<>>) =>
                    /\ \E i \in 1..Len(repositories) :
                          /\ selection[1].description = repositories[i].path
                          /\ selection[1].label = repositories[i].name
                          /\ selectedRepo = <<repositories[i]>>
                    /\ calls.extractor = 1
              /\ (pc # "picking" /\ selection = <<>>) =>
                    /\ pc = "idle"
                    /\ notifications = <<>>
                    /\ selectedRepo = <<>>
                    /\ calls.extractor = 0 /\ calls.generator = 0
                    /\ NothingWritten

\* The user picked the second of two repositories and the run went on with it.
C4_Witness ==
    /\ LocatorReturned /\ Len(repositories) = 2
    /\ selection # <<>> /\ selection[1].description = repositories[2].path
    /\ pc = "generating"

\* The run in flight, or the last one, generated a text.
Succeeded == commitMessage # NoText

\* The live repository list holds a repository at exactly the resolved path.
LiveHasResolved ==
    /\ gitApi.available
    /\ \E i \in 1..Len(gitApi.repositories) :
          gitApi.repositories[i].path = selectedRepo[1].path

\* The message is in the input box of the resolved repository; every other
\* input box and the clipboard are as they were when the run started.
AppliedToResolved ==
    /\ \A i \in 1..Len(gitApi.repositories) :
          inputBox[i] = IF gitApi.repositories[i].path = selectedRepo[1].path
                        THEN commitMessage ELSE start.inputBox[i]
    /\ clipboard = start.clipboard

\* The message is on the clipboard; every input box is as it was.
CopiedOnly == clipboard = commitMessage /\ inputBox = start.inputBox

\* C5: on success with alwaysUseGeneratedMessage set, the run has ended; if
\* the live repository list holds a repository at exactly the resolved path
\* the message is in that repository's input box, the clipboard and every
\* other input box are untouched, and otherwise the message is on the
\* clipboard, no input box is touched and the message shown is a warning.
C5_AutoApplyRouting ==
    (Succeeded /\ alwaysUseGeneratedMessage) =>
        /\ pc = "idle"
        /\ Len(notifications) = 1
        /\ IF LiveHasResolved
           THEN AppliedToResolved /\ notifications[1] = NoteApplied
           ELSE CopiedOnly /\ notifications[1].level = "warning"

\* Auto-apply wrote the second of two input boxes and left the first alone.
C5_Witness ==
    /\ RunEnded /\ Succeeded /\ alwaysUseGeneratedMessage
    /\ LiveHasResolved
    /\ Len(gitApi.repositories) = 2
    /\ inputBox[2] = commitMessage /\ inputBox[1] # commitMessage

\* C6: on success with alwaysUseGeneratedMessage unset the modal dialog is
\* shown once and nothing is written while it is open.  After it: "Use This
\* Message" applies the message or falls back to the clipboard; "Copy to
\* Clipboard" puts the message on the clipboard and leaves every input box
\* untouched; "Cancel" or a dismissal writes neither.
C6_ModalRouting ==
    (Succeeded /\ ~alwaysUseGeneratedMessage) =>
        /\ calls.modal = 1
        /\ notifications[1] = NoteModal(commitMessage)
        /\ pc \in {"confirming", "idle"}
        /\ pc = "confirming" => inputBox = start.inputBox /\ clipboard = start.clipboard
        /\ (pc = "idle" /\ choice = "Use This Message") =>
              IF LiveHasResolved THEN AppliedToResolved ELSE CopiedOnly
        /\ (pc = "idle" /\ choice = "Copy to Clipboard") => CopiedOnly
        /\ (pc = "idle" /\ choice \in {"Cancel", "undefined"}) =>
              inputBox = start.inputBox /\ clipboard = start.clipboard

\* "Copy to Clipboard" was chosen although the resolved repository is open.
C6_Witness ==
    /\ RunEnded /\ Succeeded /\ ~alwaysUseGeneratedMessage
    /\ choice = "Copy to Clipboard"
    /\ LiveHasResolved
    /\ clipboard = commitMessage /\ start.clipboard # commitMessage

\* C7: from the moment a run has generated a text, the history holds it:
\* while the modal dialog is open and after the run, whatever the user
\* chose and whether or not alwaysUseGeneratedMessage is set.
C7_SuccessIsRecorded ==
    Succeeded => InHistory(commitMessageHistory, commitMessage)

\* The user cancelled the modal dialog and the text is in the history.
C7_Witness ==
    /\ RunEnded /\ Succeeded /\ choice = "Cancel"
    /\ InHistory(commitMessageHistory, commitMessage)
    /\ ~InHistory(start.history, commitMessage)

\* C8: the history never holds more than MAX_HISTORY_SIZE entries, and an
\* entry nearer the front was inserted later than every entry behind it.
C8_HistoryBoundedNewestFirst ==
    /\ Len(commitMessageHistory) <= MAX_HISTORY_SIZE
    /\ \A i, j \in 1..Len(commitMessageHistory) :
          i < j => insertedAt[commitMessageHistory[i]] > insertedAt[commitMessageHistory[j]]

\* The history is full and its oldest entry has been evicted.
C8_Witness ==
    /\ Len(commitMessageHistory) = MAX_HISTORY_SIZE
    /\ fresh > MAX_HISTORY_SIZE
    /\ ~InHistory(commitMessageHistory, 1)

\* C9: no text occurs twice in the history.
C9_HistoryHasNoDuplicates ==
    \A i, j \in 1..Len(commitMessageHistory) :
        i # j => commitMessageHistory[i] # commitMessageHistory[j]

\* The service returned a text that the history already held.
C9_Witness ==
    /\ Succeeded
    /\ InHistory(start.history, commitMessage)
    /\ Len(commitMessageHistory) >= 2

\* C10: when the text a run generated was in the history already, the run
\* leaves the history exactly as it was: same entries, same length, same
\* order, the text not moved to the front.
C10_RecordOfPresentIsNoOp ==
    (Succeeded /\ InHistory(start.history, commitMessage)) =>
        commitMessageHistory = start.history

\* The service returned again a text that is not at the front of the history.
C10_Witness ==
    /\ Succeeded
    /\ InHistory(start.history, commitMessage)
    /\ start.history[1] # commitMessage
    /\ commitMessageHistory[1] # commitMessage

\* C11: when the text m a run generated was not in the history, the run
\* puts m at the front and the entries behind it are the former entries in
\* their former order: all of them when the history held fewer than
\* MAX_HISTORY_SIZE entries, and all but the last one (the oldest) when it
\* held MAX_HISTORY_SIZE.
C11_RecordOfAbsentInsertsAtFront ==
    (Succeeded /\ ~InHistory(start.history, commitMessage)) =>
        LET before == start.history
            kept == IF Len(before) = MAX_HISTORY_SIZE THEN MAX_HISTORY_SIZE - 1
                    ELSE Len(before)
        IN  /\ Len(before) <= MAX_HISTORY_SIZE
            /\ Len(commitMessageHistory) = 1 + kept
            /\ commitMessageHistory[1] = commitMessage
            /\ \A i \in 1..kept : commitMessageHistory[i + 1] = before[i]

\* A new text entered the full history and only the oldest entry left it.
C11_Witness ==
    /\ Succeeded /\ ~InHistory(start.history, commitMessage)
    /\ Len(start.history) = MAX_HISTORY_SIZE
    /\ commitMessageHistory[1] = commitMessage
    /\ ~InHistory(commitMessageHistory, start.history[MAX_HISTORY_SIZE])
    /\ InHistory(commitMessageHistory, start.history[MAX_HISTORY_SIZE - 1])

\* The Generator has been called in this run; fullPrompt is what it sent.
GeneratorCalled == calls.generator = 1 /\ fullPrompt # <<>>

\* C12: the prompt sent to the service is the template T handed to the
\* Generator, the separator, the opening fence labelled diff, the diff D
\* handed to the Generator and the closing fence: T and D are in it whole,
\* token for token, with nothing before, between or after them but these
\* literals.
C12_PromptIsTemplateSeparatorFencedDiff ==
    GeneratorCalled =>
        LET T == promptTemplate
            D == stagedDiff
            sent == fullPrompt[1]
        IN  /\ Len(sent) = Len(T) + 2 + Len(D) + 1
            /\ SubSeq(sent, 1, Len(T)) = T
            /\ sent[Len(T) + 1] = "\n\nHere are the diffs:\n"
            /\ sent[Len(T) + 2] = "<fence>diff\n"
            /\ SubSeq(sent, Len(T) + 3, Len(T) + 2 + Len(D)) = D
            /\ sent[Len(sent)] = "\n<fence>"

\* A template that starts with whitespace was sent with a diff.
C12_Witness ==
    /\ GeneratorCalled
    /\ promptTemplate = <<"_", "p">>
    /\ stagedDiff = <<"d">>
    /\ fullPrompt[1][1] = "_"

ExtractorSettled == execResult # <<>>

\* text is whole without its leading and trailing whitespace.
IsTrimOf(text, whole) ==
    \E i \in 1..Len(whole), j \in 1..Len(whole) :
        /\ i <= j
        /\ text = SubSeq(whole, i, j)
        /\ ~IsSpace(whole[i]) /\ ~IsSpace(whole[j])
        /\ \A k \in 1..Len(whole) : (k < i \/ k > j) => IsSpace(whole[k])

\* C14: the Extractor's outcome by the result of the staged-diff command.
\* Success with empty or whitespace-only output: the empty diff, and no
\* error.  Success with other output: that output without its leading and
\* trailing whitespace.  Failure with the marker "not a git repository" in
\* stderr: the not-a-repository error.  Any other failure: an error that
\* carries the command's diagnostic text as it is, which is stderr, or
\* the error's message when stderr is empty.
C14_ExtractorClassification ==
    ExtractorSettled =>
        LET res == execResult[1]
            diagnostic == IF res.stderr # <<>> THEN res.stderr ELSE res.message
        IN  /\ (~res.failed /\ WhitespaceOnly(res.stdout)) =>
                  /\ stagedDiff = <<>>
                  /\ \A i \in 1..Len(notifications) : notifications[i].level # "error"
            /\ (~res.failed /\ ~WhitespaceOnly(res.stdout)) =>
                  /\ IsTrimOf(stagedDiff, res.stdout)
                  /\ calls.generator = 1
            /\ (res.failed /\ Includes(res.stderr, "not a git repository")) =>
                  /\ notifications =
                        <<NoteError(<<"Not a git repository or no HEAD commit yet.">>)>>
                  /\ calls.generator = 0
            /\ (res.failed /\ ~Includes(res.stderr, "not a git repository")) =>
                  /\ notifications =
                        <<NoteError(<<"Failed to get git diff: ">> \o diagnostic)>>
                  /\ calls.generator = 0

\* The command failed for another reason and wrote to stderr.
C14_Witness ==
    /\ ExtractorSettled /\ RunEnded
    /\ execResult[1].failed
    /\ execResult[1].stderr = <<"fatal: unable to read index">>
    /\ Includes(notifications[1].text, "Failed to get git diff: ")

\* The root holds a .git directory itself, or a directory below it does.
IsOrContainsRepository(folder) == \E g \in gitDirs : IsSegPrefix(folder.path, g)

\* The probe succeeds in the root: the root is inside a working tree and the
\* command does not fail.
Probed(folder) ==
    /\ folder.path \notin faults.probe
    /\ \E g \in gitDirs : IsSegPrefix(g, folder.path)

\* The directories the subtree search of the root reports.
Searched(folder) ==
    IF folder.path \in faults.find THEN {}
    ELSE {g \in gitDirs : IsSegPrefix(folder.path, g)}

Returned(path) == \E k \in 1..Len(repositories) : repositories[k].path = path

\* C15 as stated: the Locator returns the empty list exactly when no root is
\* a repository itself or contains one.
C15_EmptyIffNoRepository ==
    LocatorReturned =>
        (Len(repositories) = 0 <=>
            \A i \in 1..Len(workspaceFolders) : ~IsOrContainsRepository(workspaceFolders[i]))

\* C15, amended: the Locator returns the empty list exactly when, in every
\* root, the probe does not succeed and the subtree search fails or reports
\* nothing.  It does not raise: with an empty list the run ends with the
\* no-repositories message alone.  A command that fails in one root omits
\* entries of that root only: a root where the probe succeeds is returned,
\* and so is every directory a subtree search reports.
C15_EmptyIffNothingFound ==
    LocatorReturned =>
        /\ Len(repositories) = 0 <=>
              \A i \in 1..Len(workspaceFolders) :
                  ~Probed(workspaceFolders[i]) /\ Searched(workspaceFolders[i]) = {}
        /\ Len(repositories) = 0 => pc = "idle" /\ notifications = <<NoteNoRepositories>>
        /\ \A i \in 1..Len(workspaceFolders) :
              /\ Probed(workspaceFolders[i]) => Returned(workspaceFolders[i].path)
              /\ \A g \in Searched(workspaceFolders[i]) : Returned(g)

\* Both commands failed in the first of two roots, which holds two
\* repositories, and the repository of the second root was returned.
C15_Witness ==
    /\ LocatorReturned
    /\ Len(workspaceFolders) = 2
    /\ workspaceFolders[1].path \in faults.probe \cap faults.find
    /\ IsOrContainsRepository(workspaceFolders[1])
    /\ Len(repositories) = 1
    /\ repositories[1].path = workspaceFolders[2].path

\* The last operation was a delete of a template that existed.
DeletedExisting ==
    /\ storeOp.name = "deleteTemplate"
    /\ storeOp.id \in DOMAIN storeOp.before.savedTemplates

\* Every write the last operation awaited succeeded.
AllWritten == \A i \in 1..Len(storeOp.writes) : storeOp.writes[i]

\* After a delete whose writes all succeeded, exactly the deleted template
\* is gone, and the default id is cleared when it named that template and
\* is as it was otherwise.
DeleteRemovesAndClears ==
    (DeletedExisting /\ AllWritten) =>
        /\ config.savedTemplates = Delete(storeOp.before.savedTemplates, storeOp.id)
        /\ config.defaultTemplateId =
              IF storeOp.before.defaultTemplateId = storeOp.id THEN NoId
              ELSE storeOp.before.defaultTemplateId

\* C16: starting with a default id that is empty or names a template, after
\* any sequence of create, update and delete operations the default id is
\* empty or names a template of the mapping: it never names a deleted one.
C16_DefaultNeverNamesDeleted ==
    \/ config.defaultTemplateId = NoId
    \/ config.defaultTemplateId \in DOMAIN config.savedTemplates

\* The last operation was a delete or an update of a template that the
\* mapping did not hold when the operation looked it up.
OnAbsentId ==
    /\ storeOp.name \in {"deleteTemplate", "editTemplate"}
    /\ storeOp.id \notin DOMAIN storeOp.before.savedTemplates

\* C17: a delete or an update for an id that is not in the mapping leaves
\* the mapping and the default id as they were, awaits no write, and shows
\* the error message "Template not found." and nothing else.
C17_AbsentIdIsNotFound ==
    OnAbsentId =>
        /\ config.savedTemplates = storeOp.before.savedTemplates
        /\ config.defaultTemplateId = storeOp.before.defaultTemplateId
        /\ storeOp.writes = <<>>
        /\ storeOp.notes = <<Note("error", <<"Template not found.">>)>>
        /\ ~storeOp.threw

\* An update for an id that names no template, while the mapping holds
\* another template.
C17_Witness ==
    /\ OnAbsentId
    /\ storeOp.name = "editTemplate"
    /\ config.savedTemplates # NoTemplates
    /\ storeOp.notes # <<>>

\* A write the last operation awaited failed.
WriteFailed == \E i \in 1..Len(storeOp.writes) : ~storeOp.writes[i]

\* The last operation showed an error message that carries the error's text.
FailureNotified ==
    \E i \in 1..Len(storeOp.notes) :
        /\ storeOp.notes[i].level = "error"
        /\ Includes(storeOp.notes[i].text, WriteError[1])

\* Every operation but the "Set API Key" command reports a failed write and
\* does not throw.
WriteFailureIsNotifiedButForApiKey ==
    (WriteFailed /\ storeOp.name # "setApiKey") => FailureNotified /\ ~storeOp.threw

\* C20: when a write of a settings or template operation fails, the
\* operation shows the failure as a message and does not throw.
C20_WriteFailureIsNotified ==
    WriteFailed => FailureNotified /\ ~storeOp.threw

\* The Generator failed in this run: the service threw, or it answered
\* without candidate content.
GeneratorFailed == answer # <<>> /\ (answer[1].threw \/ answer[1].candidates < 3)

\* The four reports of a Generator failure, told apart by the message shown.
ReportedAuthInvalid(text) ==
    text = <<"Error generating commit message: ",
             "Gemini API key is not valid. Please check and set it again.">>
ReportedQuotaExceeded(text) ==
    text = <<"Error generating commit message: ",
             "Gemini API quota exceeded. Please check your usage limits.">>
ReportedBlocked(text) ==
    /\ Len(text) > 2
    /\ SubSeq(text, 1, 2) = <<"Error generating commit message: ", "Gemini API error: ">>
    /\ Includes(text, "Generation failed. The response may have been blocked due to safety settings (Reason: ")
ReportedOtherApiError(text, message) ==
    /\ text = <<"Error generating commit message: ", "Gemini API error: ">> \o message
    /\ ~Includes(text, "Generation failed. The response may have been blocked due to safety settings (Reason: ")

\* C18: a failure of the Generator is shown as one error message, which is
\* exactly one of the four reports.  A thrown error whose message contains
\* "API key not valid" is reported as AuthInvalid; otherwise one whose
\* message contains "quota" as QuotaExceeded; a response without candidate
\* content as Blocked, never as AuthInvalid or QuotaExceeded; any other
\* thrown error as OtherApiError with its message as it is.
C18_GeneratorFailureClassification ==
    GeneratorFailed =>
        LET text == notifications[1].text
            message == answer[1].message
            auth == ReportedAuthInvalid(text)
            quota == ReportedQuotaExceeded(text)
            blocked == ReportedBlocked(text)
            other == ReportedOtherApiError(text, message)
        IN  /\ pc = "idle"
            /\ Len(notifications) = 1
            /\ notifications[1].level = "error"
            /\ auth \/ quota \/ blocked \/ other
            /\ ~(auth /\ quota) /\ ~(auth /\ blocked) /\ ~(auth /\ other)
            /\ ~(quota /\ blocked) /\ ~(quota /\ other) /\ ~(blocked /\ other)
            /\ (answer[1].threw /\ Includes(message, "API key not valid")) => auth
            /\ (answer[1].threw /\ ~Includes(message, "API key not valid")
                   /\ Includes(message, "quota")) => quota
            /\ ~answer[1].threw => blocked
            /\ (answer[1].threw /\ ~Includes(message, "API key not valid")
                   /\ ~Includes(message, "quota")) => other

\* The service threw an error whose message contains both markers, and the
\* failure was reported as an invalid key.
C18_Witness ==
    /\ GeneratorFailed /\ answer[1].threw
    /\ Includes(answer[1].message, "API key not valid")
    /\ Includes(answer[1].message, "quota")
    /\ ReportedAuthInvalid(notifications[1].text)

\* A collaborator raised in this run: the Extractor rejected, or the
\* Generator rejected.  (The Locator settles every command it runs and
\* cannot raise.)
Raised ==
    \/ ExtractorSettled /\ ~GetStagedDiff(execResult[1]).ok
    \/ GeneratorFailed

\* The message of the error that was raised.
RaisedMessage ==
    IF GeneratorFailed THEN GenerateCommitMessage(answer[1]).error
    ELSE GetStagedDiff(execResult[1]).error

\* C19: when the Extractor or the Generator raises, the run has ended with
\* one error message, which carries the error's message text; the history,
\* the clipboard and every input box are as they were when the run started,
\* the modal dialog was not shown, and no collaborator was invoked twice.
C19_RaisedIsCaughtOnce ==
    Raised =>
        /\ pc = "idle"
        /\ Len(notifications) = 1
        /\ notifications[1].level = "error"
        /\ notifications[1].text = <<"Error generating commit message: ">> \o RaisedMessage
        /\ NothingWritten
        /\ calls.modal = 0
        /\ calls.locator <= 1 /\ calls.quickPick <= 1
        /\ calls.extractor = 1 /\ calls.generator <= 1

\* The Generator raised in the second run, after the Locator and the
\* Extractor had returned and an earlier run had filled the history.
C19_Witness ==
    /\ Raised /\ GeneratorFailed /\ RunEnded
    /\ calls.locator = 1 /\ calls.extractor = 1 /\ calls.generator = 1
    /\ commitMessageHistory # <<>>

\* The run in flight, or the last one, passed the credential check.
PassedCredentialCheck == runs > 0 /\ HasCredential(apiKey)

\* The first repository selected in the SCM view lies in a workspace folder.
ScmSelectionInWorkspace ==
    /\ gitApi.available
    /\ \E a \in 1..Len(gitApi.repositories) :
          /\ gitApi.repositories[a].selected
          /\ \A b \in 1..(a - 1) : ~gitApi.repositories[b].selected
          /\ \E w \in 1..Len(workspaceFolders) :
                StartsWith(gitApi.repositories[a].path, workspaceFolders[w].path)

\* The stages after the Locator, in their order: the Extractor only after a
\* repository was resolved, the Generator only after the Extractor returned
\* a diff that is not empty, output routing only after the Generator
\* returned a text; nothing is invoked twice and nothing happens in a run
\* that failed the credential check.
LaterStagesInOrder ==
    /\ calls.locator <= 1 /\ calls.quickPick <= 1 /\ calls.extractor <= 1
    /\ calls.generator <= 1 /\ calls.modal <= 1
    /\ (runs > 0 /\ ~HasCredential(apiKey)) => calls = NoCalls /\ pc = "idle"
    /\ calls.quickPick = 1 => LocatorReturned /\ Len(repositories) > 1
    /\ calls.extractor = 1 <=> (PassedCredentialCheck /\ selectedRepo # <<>>)
    /\ (calls.extractor = 1 /\ calls.locator = 1) =>
          /\ LocatorReturned
          /\ \E i \in 1..Len(repositories) : selectedRepo = <<repositories[i]>>
          /\ Len(repositories) > 1 => calls.quickPick = 1 /\ selection # <<>>
    /\ pc = "extracting" <=> (calls.extractor = 1 /\ execResult = <<>>)
    /\ calls.generator = 1 <=>
          /\ calls.extractor = 1 /\ execResult # <<>>
          /\ ~execResult[1].failed /\ Trim(execResult[1].stdout) # <<>>
    /\ pc = "generating" <=> (calls.generator = 1 /\ answer = <<>>)
    /\ (calls.modal = 1 \/ ~NothingWritten) =>
          /\ calls.generator = 1 /\ answer # <<>>
          /\ ~answer[1].threw /\ answer[1].candidates = 3 /\ commitMessage # NoText
    /\ (answer # <<>> /\ commitMessage # NoText) =>
          IF alwaysUseGeneratedMessage
          THEN calls.modal = 0 /\ pc = "idle" /\ Len(notifications) = 1
          ELSE calls.modal = 1 /\ (pc = "confirming" \/ pc = "idle")

OutcomeSuccess == commitMessage # NoText
OutcomeNoChanges ==
    /\ commitMessage = NoText
    /\ execResult # <<>> /\ ~execResult[1].failed /\ stagedDiff = <<>>
    /\ notifications = <<NoteNoStagedChanges>>
OutcomeUserCancelled ==
    /\ commitMessage = NoText
    /\ calls.quickPick = 1 /\ selection = <<>> /\ notifications = <<>>
OutcomeFailure ==
    /\ commitMessage = NoText
    /\ Len(notifications) = 1
    /\ notifications[1].level \in {"error", "warning"}

OneOutcome ==
    /\ OutcomeSuccess \/ OutcomeNoChanges \/ OutcomeUserCancelled \/ OutcomeFailure
    /\ ~(OutcomeSuccess /\ OutcomeNoChanges) /\ ~(OutcomeSuccess /\ OutcomeUserCancelled)
    /\ ~(OutcomeSuccess /\ OutcomeFailure) /\ ~(OutcomeNoChanges /\ OutcomeUserCancelled)
    /\ ~(OutcomeNoChanges /\ OutcomeFailure) /\ ~(OutcomeUserCancelled /\ OutcomeFailure)

\* C22: when every external call and every dialog returns, a run that is
\* in flight eventually ends with the handler idle again, and a run that
\* has ended has exactly one outcome among Success, NoChanges, UserCancelled
\* and Failure.
C22_RunTerminatesWithOneOutcome ==
    /\ [](RunEnded => OneOutcome)
    /\ (pc # "idle") ~> RunEnded

\* A run that waited for the Locator, the selection prompt, the Extractor,
\* the Generator and the modal dialog has ended, in Success.
C22_Witness ==
    /\ RunEnded /\ OutcomeSuccess /\ OneOutcome
    /\ calls.locator = 1 /\ calls.quickPick = 1 /\ calls.modal = 1
    /\ choice = "undefined"

\* C23: an invocation made while another run is in flight is not held back,
\* so two runs overlap; however their steps interleave at the awaits, the
\* history holds at most MAX_HISTORY_SIZE texts and none of them twice.
C23_OverlapKeepsHistorySound ==
    /\ (pc = "idle" /\ otherRun.pc # "idle" /\ runs < runLimit) => ENABLED Invoke
    /\ Len(commitMessageHistory) <= MAX_HISTORY_SIZE
    /\ \A i, j \in 1..Len(commitMessageHistory) :
          i < j => commitMessageHistory[i] # commitMessageHistory[j]

\* Two runs started from the same history, one text short of full, and the
\* service returned to each a text that the history did not hold, a
\* different one to each; both have ended and the oldest text is gone.
C23_Witness ==
    /\ RunEnded /\ otherRun.pc = "idle"
    /\ commitMessage # NoText /\ otherRun.commitMessage # NoText
    /\ otherRun.commitMessage # commitMessage
    /\ otherRun.start.history = start.history
    /\ Len(start.history) = MAX_HISTORY_SIZE - 1
    /\ ~InHistory(start.history, commitMessage)
    /\ ~InHistory(start.history, otherRun.commitMessage)
    /\ Len(commitMessageHistory) = MAX_HISTORY_SIZE
    /\ ~InHistory(commitMessageHistory, 1)

\* The panel's last step was the handling of an updateSettings message.
PanelProcessedSnapshot == panel.message # <<>>

\* After an updateSettings message the script's variables and controls hold
\* the message's values, and the saved state holds the same.
MirrorIsSnapshot ==
    PanelProcessedSnapshot =>
        /\ Mirror(panel) = panel.message[1]
        /\ panel.state = Mirror(panel)

\* C24: after the panel has handled an updateSettings message, its mirror
\* (key flag, prompt, model, auto-apply flag, templates, selected template
\* id) holds the message's values, the template shown as selected in the
\* list is the one the message names as selected (none when it names none
\* of the list), and the saved view state equals the mirror.
C24_PanelMirrorsSnapshot ==
    /\ MirrorIsSnapshot
    /\ PanelProcessedSnapshot =>
          panel.highlighted =
              Highlighted(panel.message[1].templates, panel.message[1].selectedTemplateId)

\* What the handler gets from the Locator and what the user is shown.
LocatorOutcome == [returned |-> repositories, shown |-> notifications]

\* The outcome when roots exist and none of them is or holds a repository.
NoRepositoriesFound == [returned |-> <<>>, shown |-> <<NoteNoRepositories>>]

\* Roots exist, nothing was found, and the run has ended as NoRepositoriesFound.
NothingFoundIsNoRepositoriesFound ==
    (LocatorReturned /\ workspaceFolders # <<>> /\ repositories = <<>>) =>
        pc = "idle" /\ LocatorOutcome = NoRepositoriesFound

\* C25: when there is no root directory at all, the run ends after the
\* Locator returned, with an outcome that differs from NoRepositoriesFound
\* in what the Locator returned or in what the user is shown.
C25_NoWorkspaceIsDistinct ==
    (LocatorReturned /\ workspaceFolders = <<>>) =>
        pc = "idle" /\ LocatorOutcome # NoRepositoriesFound

\* The last operation was a create that wrote the templates.
Created == storeOp.name = "newTemplate" /\ storeOp.writes = <<TRUE>>

\* The templates the operation found are all still there, as they were.
FoundAreUnchanged ==
    \A i \in DOMAIN storeOp.before.savedTemplates :
        /\ i \in DOMAIN config.savedTemplates
        /\ config.savedTemplates[i] = storeOp.before.savedTemplates[i]

\* A create whose id is not taken adds one template and changes no other.
CreateUnderNewIdAddsOne ==
    (Created /\ storeOp.id \notin DOMAIN storeOp.before.savedTemplates) =>
        /\ DOMAIN config.savedTemplates =
               DOMAIN storeOp.before.savedTemplates \cup {storeOp.id}
        /\ FoundAreUnchanged

\* C26: a create stores the new template under an id that was not a key of
\* the mapping before (so not under the id of a template that an earlier
\* create stored), adds exactly one entry and leaves every template that
\* was there unchanged.
C26_CreateUsesNewId ==
    Created =>
        /\ storeOp.id \notin DOMAIN storeOp.before.savedTemplates
        /\ Cardinality(DOMAIN config.savedTemplates) =
               Cardinality(DOMAIN storeOp.before.savedTemplates) + 1
        /\ FoundAreUnchanged

\* The panel shows its "Generating..." status.
ShowsGenerating == panel.generateStatus = "Generating..."

\* A run that ended after the Generator returned or after a collaborator
\* raised has cleared the panel's status.
ClearedAfterGeneratorOrError ==
    (RunEnded /\ (answer # <<>> \/ Raised)) => ~ShowsGenerating

\* C27: when every call returns, a "Generating..." status that the panel
\* shows is eventually cleared, whatever the outcome of the run is.
C27_GeneratingStatusIsCleared == ShowsGenerating ~> ~ShowsGenerating

\* This step is the return of _editTemplate's second dialog, and it wrote.
EditWrote == editing # <<>> /\ editing' = <<>> /\ storeOp'.writes = <<TRUE>>

\* This step is the return of a dialog of _editTemplate that was cancelled
\* or left empty.
EditCancelled == editing # <<>> /\ editing' = <<>> /\ storeOp'.writes = <<>>

\* The step changed nothing in the mapping but the name and the prompt of
\* the edited template.
OnlyNameAndPromptChanged ==
    LET id == editing[1].templateId
    IN  /\ DOMAIN config'.savedTemplates = DOMAIN config.savedTemplates
        /\ \A i \in DOMAIN config.savedTemplates :
              IF i = id
              THEN config'.savedTemplates[i].projectPaths =
                       config.savedTemplates[i].projectPaths
              ELSE config'.savedTemplates[i] = config.savedTemplates[i]

\* An edit during which the mapping stayed as the edit found it changes
\* nothing but the name and the prompt of its template.
UndisturbedEditIsLocal ==
    [][(EditWrote /\ config.savedTemplates = editing[1].templates)
          => OnlyNameAndPromptChanged]_vars

\* C28: the write of an edit changes nothing in the mapping, as it was just
\* before the write, but the name and the prompt of the edited template,
\* also when a create, a delete or another change of the settings completed
\* while the dialogs of the edit were open; an edit whose dialog was
\* cancelled or left empty writes nothing.
C28_EditWritesOnlyItsTemplate ==
    [][/\ EditWrote => OnlyNameAndPromptChanged
       /\ EditCancelled => config' = config]_vars

\* This step is the handling of copyLastCommitMessage.
CopyStep == storeOp'.name = "copyLastCommitMessage" /\ storeOps' = storeOps + 1

\* The Copy button copies the first entry of the history, the text that
\* was inserted last.
CopyTakesFirstOfHistory ==
    [][(CopyStep /\ commitMessageHistory # <<>>) =>
          /\ clipboard' = commitMessageHistory[1]
          /\ \A i \in 2..Len(commitMessageHistory) :
                insertedAt[commitMessageHistory[i]] < insertedAt[commitMessageHistory[1]]]_vars

\* C29: when the history is not empty, copyLastCommitMessage copies the text
\* of the latest successful generation to the clipboard; when it is empty
\* it leaves the clipboard alone and says that there is no history.
C29_CopyTakesLatestGeneration ==
    [][CopyStep =>
          IF commitMessageHistory # <<>>
          THEN /\ clipboard' = lastGenerated
               /\ storeOp'.notes = <<NoteLastCopied>>
          ELSE /\ clipboard' = clipboard
               /\ storeOp'.notes = <<NoteNoHistory>>]_vars

\* The paths of the roots, in the order of the list.
RootPaths == [i \in 1..Len(workspaceFolders) |-> workspaceFolders[i].path]

\* A repository of the returned list that is not the root of its own entry
\* has a path that no earlier entry has: embedded repositories are checked
\* against the list before they are registered.
EmbeddedAreRegisteredOnce ==
    LocatorReturned =>
        \A j \in 1..Len(repositories) :
            (\E i \in 1..(j - 1) : repositories[i].path = repositories[j].path) =>
                \E k \in 1..Len(RootPaths) :
                    RootPaths[k] = repositories[j].path /\ repositories[j].name = workspaceFolders[k].name

\* C30: the list the Locator returns holds no two repositories with the same
\* path, whatever the roots are, nested ones included.
C30_LocatorPathsAreDistinct ==
    LocatorReturned =>
        \A i, j \in 1..Len(repositories) :
            repositories[i].path = repositories[j].path => i = j

====
